---------------------------- MODULE Spec2Model ----------------------------
(***************************************************************************)
(* State-machine model of the burn / referral / dividend front end         *)
(* (App component): the transaction handlers (approve, burn, the five      *)
(* claims, subscribe), the inviter resolution of both flows, the           *)
(* burn-value check with its AMM quote, the refresh that publishes the     *)
(* on-chain figures, and the reconciliation of on-chain and off-chain      *)
(* figures.                                                                *)
(*                                                                         *)
(* Every click creates one asynchronous handler invocation ("operation").  *)
(* An operation works on the values of the render in which the click       *)
(* happened (its closure): the parsed amount, the resolved inviter, the    *)
(* price.  The state setters act on the shared component state.            *)
(*                                                                         *)
(* Amounts are in wei.  TLC integers are 32 bits wide, so one ether is     *)
(* WeiPerEther wei and uint256 is UintWidth bits wide; the arithmetic of   *)
(* the code is unbounded (bigint) and never wraps.                          *)
(***************************************************************************)
EXTENDS Integers, Sequences, FiniteSets, TLC

\* ------------------------------------------------------------- bounds
\* Handler invocations that can be in flight at once in Spec; ConcSpec allows
\* one more.
MaxOps == 1
\* Out-of-band changes of the on-chain allowance in one run.
MaxExternal == 1
\* Wei per ether (stands for 10^18).
WeiPerEther == 10
\* Width of uint256 (stands for 256).
UintWidth == 8
\* Longest off-chain decimal string.
MaxStrLen == 2

AllSlots == 1..(MaxOps + 1)

\* ------------------------------------------------------------- values
Null == "null"
ZeroAddress == "0x0"
MaxUint256 == (2 ^ UintWidth) - 1

\* Strings that can stand where an address is expected: the empty string, a
\* string that does not start with 0x, a string that starts with 0x and is
\* no address, the zero address, and well-formed non-zero addresses.
WellFormed == {"0x0", "0xA", "0xB", "0xR"}
AddressLike == {"", "abc", "0xZZ"} \cup WellFormed

\* ethers.isAddress
isAddress(s) == s \in WellFormed

\* String.prototype.startsWith('0x')
startsWith0x(s) == s \in (WellFormed \cup {"0xZZ"})

\* JavaScript truthiness of a string-or-null value.
Truthy(s) == s # Null /\ s # ""

\* The connected account and the token the burn registry names.
Account == "0xME"
TokenAddr == "0xT"

\* ------------------------------------------------------------- the chain
\* What the remote contracts answer.  Only the allowance changes during a
\* run (approve sets it, the owner may change it out of band).
ChainAllowances == {0, WeiPerEther, MaxUint256}
ChainTokenBalance == 5 * WeiPerEther
ChainReserves == [token |-> 1000, bnb |-> 300]
ChainMinBurnValue == 2 + 2
ChainUnpaid == [bnb |-> 3, token |-> 0, loss |-> 3, nfts |-> 1]
ChainPricePerShare == 1 + 2
NativeBalances == {0, 5}

VARIABLES
    isConnected,        \* useAppKitAccount().isConnected
    chainId,            \* useAppKitNetwork().chainId
    urlRef,             \* the ref query parameter (Null when absent)
    inviter,            \* useState('') set by the URL effect
    inviterOnchain,
    rootInviter,
    nftInviterOnchain,
    nftSubRootInviter,
    tokenAddress,
    tokenBalance,
    allowance,          \* the allowance published by the last refresh
    minBurnValue,
    tokenReserve,
    bnbReserve,
    burnUnpaidBNB,
    burnUnpaidToken,
    lossPendingDividend,
    claimableNfts,
    nftSubPrice,
    offchainStatus,
    lossSnapshot,
    cachedLoss,
    holdingValue,
    effective,          \* the effective position of the last render
    burnAmount,         \* the text of the amount input
    isPending,
    lastAction,
    alert,              \* the alert() shown by the last step
    ops,                \* the handler invocations in flight
    slots,              \* the slots a click may take (fixed in a run)
    chainAllowance,     \* allowance(Account, burnToken) on chain
    extLeft,            \* out-of-band allowance changes still possible
    amm,                \* the last quote computed: its input and its results
    load,               \* the deployment, and what the last refresh met
    chain,              \* the pair on chain: token0 and the two reserves
    poll,               \* the polling effect: mounted, the intervals set
    prompt,             \* the auto-open effect: its flag, its timer, the opens
    race,               \* the refreshes in progress, stage by stage
    account             \* the account the wallet exposes

walletVars == <<isConnected, chainId>>
refVars == <<urlRef, inviter, inviterOnchain, rootInviter, nftInviterOnchain,
             nftSubRootInviter>>
dataVars == <<tokenAddress, tokenBalance, allowance, minBurnValue, tokenReserve,
              bnbReserve, burnUnpaidBNB, burnUnpaidToken, lossPendingDividend,
              claimableNfts, nftSubPrice>>
reconVars == <<offchainStatus, lossSnapshot, cachedLoss, holdingValue, effective>>
auxVars == <<chain, poll, prompt, race, account>>
envVars == <<chainAllowance, extLeft, slots, amm, load, auxVars>>
vars == <<walletVars, refVars, dataVars, reconVars, burnAmount, isPending,
          lastAction, alert, ops, envVars>>


\* ------------------------------------------------------------- bigint
Abs(x) == IF x < 0 THEN -x ELSE x

\* bigint division: truncates toward zero.  The caller guards b # 0.
BigDiv(a, b) ==
    IF (a < 0) = (b < 0) THEN Abs(a) \div Abs(b) ELSE -(Abs(a) \div Abs(b))

\* ethers.parseEther on the texts the amount input can hold; it throws on a
\* text that is no fixed-point decimal ("1e5").
BurnInputs == {"", "1", "2", "1e5"}
ParseEtherThrows(text) == text = "1e5"
parseEther(text) ==
    CASE text = "1" -> 1 * WeiPerEther
      [] text = "2" -> 2 * WeiPerEther
      [] OTHER -> 0

\* ethers.formatEther(x).split('.')[0]: the sign and the whole ethers of x.
FormatWhole(x) == [neg |-> x < 0, whole |-> Abs(x) \div WeiPerEther]

\* ------------------------------------------------------------- registry
\* getContracts: the BSC registry unless the chain is a local one.  The
\* addresses are deployment data; the model takes a deployment in which the
\* groups are configured on BSC and not on the local registry.
Configured == "0xC"
getContracts(cid) ==
    IF cid = 31337 \/ cid = 1337
    THEN [burnToken |-> ZeroAddress, nftSubscription |-> ZeroAddress]
    ELSE [burnToken |-> Configured, nftSubscription |-> Configured]
CONTRACTS == getContracts(chainId)

\* The chain the reads are made on: readRpc is the local node for the two
\* local chain ids and BSC_RPC (chain 56) for every other one.
ReadChain(cid) == IF cid = 31337 \/ cid = 1337 THEN cid ELSE 56

\* The signer effect: a signer exists exactly while the wallet is connected.
signer == IF isConnected THEN "signer" ELSE Null

\* ------------------------------------------------------------- referral
\* useMemo inviterFromUrl: the ref parameter when it is an address.
inviterFromUrlOf(ref) == IF Truthy(ref) /\ isAddress(ref) THEN ref ELSE ""
inviterFromUrl == inviterFromUrlOf(urlRef)

\* The URL effect: setInviter(ref) when ref starts with 0x.
InviterAfterMount(ref) == IF Truthy(ref) /\ startsWith0x(ref) THEN ref ELSE ""

\* useState('') with no setter.
nftSubInviter == ""

\* handleBurn: inviterAddr.
burnInviterAddr(inv, onchain, root) ==
    IF Truthy(inv) /\ startsWith0x(inv) THEN inv
    ELSE IF Truthy(onchain) /\ onchain # ZeroAddress THEN onchain
    ELSE IF Truthy(root) /\ root # ZeroAddress THEN root
    ELSE ZeroAddress

\* handleSubscribe: inviterAddress.
subscribeInviterAddress(onchain, manual, fromUrl, root) ==
    IF Truthy(onchain) /\ onchain # ZeroAddress THEN onchain
    ELSE IF Truthy(manual) /\ isAddress(manual) THEN manual
    ELSE IF Truthy(fromUrl) THEN fromUrl
    ELSE IF Truthy(root) /\ isAddress(root) THEN root
    ELSE ZeroAddress

\* ------------------------------------------------------------- burn value
parsedBurnAmountOf(text) ==
    IF text = "" \/ ParseEtherThrows(text) THEN 0 ELSE parseEther(text)
parsedBurnAmount == parsedBurnAmountOf(burnAmount)

isApproveNeeded ==
    IF parsedBurnAmount <= 0 THEN FALSE ELSE allowance < parsedBurnAmount

\* A quote without the 0.3% fee.
calculateBurnValue_NoFee(amountIn) ==
    IF amountIn <= 0 \/ tokenReserve <= 0 \/ bnbReserve <= 0 THEN 0
    ELSE BigDiv(amountIn * bnbReserve, tokenReserve + amountIn)

\* A quote whose denominator grows with the square of the input.
calculateBurnValue_SquaredFee(amountIn) ==
    IF amountIn <= 0 \/ tokenReserve <= 0 \/ bnbReserve <= 0 THEN 0
    ELSE BigDiv(amountIn * 997 * bnbReserve,
                tokenReserve * 1000 + amountIn * amountIn * 997)

\* A quote whose division rounds up.
calculateBurnValue_RoundsUp(amountIn) ==
    IF amountIn <= 0 \/ tokenReserve <= 0 \/ bnbReserve <= 0 THEN 0
    ELSE LET amountInWithFee == amountIn * 997
             numerator == amountInWithFee * bnbReserve
             denominator == tokenReserve * 1000 + amountInWithFee
         IN  BigDiv(numerator + denominator - 1, denominator)

calculateBurnValue(amountIn) ==
    IF amountIn <= 0 \/ tokenReserve <= 0 \/ bnbReserve <= 0 THEN 0
    ELSE LET amountInWithFee == amountIn * 997
             numerator == amountInWithFee * bnbReserve
             denominator == tokenReserve * 1000 + amountInWithFee
         IN  IF denominator = 0 THEN 0 ELSE BigDiv(numerator, denominator)

calculateMinTokenAmount(minValue) ==
    IF minValue <= 0 \/ tokenReserve <= 0 \/ bnbReserve <= 0 THEN 0
    ELSE LET numerator == tokenReserve * minValue * 1000
             denominator == (bnbReserve - minValue) * 997
         IN  IF denominator = 0 THEN 0
             ELSE BigDiv(BigDiv(numerator, denominator) * 101, 100)

NoAlert == [kind |-> "none", neg |-> FALSE, whole |-> 0]
Alert(k) == [kind |-> k, neg |-> FALSE, whole |-> 0]

\* The message of a rejected burn: it shows the whole tokens of the minimum
\* input amount.
BelowMinMessage(minTokens) ==
    [kind |-> "belowMin", neg |-> FormatWhole(minTokens).neg,
     whole |-> FormatWhole(minTokens).whole]

\* A burn-value check without the minimum.
burnValueCheck_NoMinimum ==
    IF parsedBurnAmount <= 0 THEN [isValid |-> FALSE, message |-> Alert("empty")]
    ELSE [isValid |-> TRUE, message |-> Alert("empty")]

burnValueCheck ==
    IF parsedBurnAmount <= 0 THEN [isValid |-> FALSE, message |-> Alert("empty")]
    ELSE IF calculateBurnValue(parsedBurnAmount) < minBurnValue
    THEN [isValid |-> FALSE,
          message |-> BelowMinMessage(calculateMinTokenAmount(minBurnValue))]
    ELSE [isValid |-> TRUE, message |-> Alert("empty")]

\* ------------------------------------------------------------- bookkeeping
\* No quote computed yet.
NoQuote ==
    [amountIn |-> 0, quoted |-> FALSE, burnValue |-> 0, inverted |-> FALSE,
     minTokens |-> 0, roundTrip |-> 0]

\* The registry of a full deployment, and no refresh made yet.
FullDeployment ==
    [burnToken |-> TRUE, nftSubscription |-> TRUE, lossDividend |-> TRUE]
NoEnv == [burnToken |-> "code", nftSubscription |-> "code", fails |-> {}]
NoLoad == [n |-> 0, deploy |-> FullDeployment, env |-> NoEnv]

\* The pair as the chain has it: the token is token0; and what getCachedLoss
\* answers for the account.
WrappedNative == "0xW"
ChainCachedLoss == [loss |-> 4, valid |-> TRUE]
DefaultChain ==
    [token0 |-> TokenAddr, reserve0 |-> ChainReserves.token,
     reserve1 |-> ChainReserves.bnb, moves |-> 0, cached |-> ChainCachedLoss]

\* The polling effect has run once: the component is mounted, one interval
\* is set.
Polling == [mounted |-> TRUE, timers |-> {1}, made |-> 1, loading |-> "none"]

\* The auto-open timer has fired: the prompt was opened once.
Prompted == [hasAutoOpened |-> TRUE, timers |-> {}, made |-> 1, opens |-> 1]

\* No refresh is in progress stage by stage.
RefreshIds == {"poll", "tx"}
NoReads ==
    [allowance |-> 0, tokenReserve |-> 0, bnbReserve |-> 0, acct |-> Null,
     tokenBalance |-> 0]
NoRace ==
    [runs |-> [r \in RefreshIds |->
                [stage |-> 0, waiting |-> FALSE, got |-> NoReads]],
     order |-> <<>>]

\* ------------------------------------------------------------- reconciliation
\* The off-chain snapshot is null or an object; a field of it is missing or a
\* string, and strings are sequences of characters.
NoSnapshot == [absent |-> TRUE]
Missing == <<"undefined">>
Chars == {"1", "-"}
RECURSIVE StringsOfLen(_)
StringsOfLen(n) ==
    IF n = 0 THEN {<<>>}
    ELSE {Append(s, c) : s \in StringsOfLen(n - 1), c \in Chars}
Strings == UNION {StringsOfLen(n) : n \in 0..MaxStrLen}
OffchainField == {Missing} \cup Strings

IsDigit(c) == c = "1"
DigitValue(c) == IF c = "1" THEN 1 ELSE 0
AllDigits(s) == Len(s) > 0 /\ \A k \in 1..Len(s) : IsDigit(s[k])
RECURSIVE DigitsValue(_)
DigitsValue(s) ==
    IF Len(s) = 0 THEN 0
    ELSE 10 * DigitsValue(SubSeq(s, 1, Len(s) - 1)) + DigitValue(s[Len(s)])

\* BigInt(string): an optional sign and decimal digits, or a SyntaxError.
BigIntThrows(s) ==
    ~(AllDigits(s) \/ (Len(s) > 1 /\ s[1] = "-" /\ AllDigits(Tail(s))))
BigIntOf(s) ==
    IF s[1] = "-" THEN -DigitsValue(Tail(s)) ELSE DigitsValue(s)

parseWeiString(value) ==
    IF value = Missing \/ value = <<>> THEN 0
    ELSE IF BigIntThrows(value) THEN 0
    ELSE BigIntOf(value)

offchainCostBasis ==
    IF offchainStatus # NoSnapshot THEN parseWeiString(offchainStatus.costBasis) ELSE 0
offchainSoldValue ==
    IF offchainStatus # NoSnapshot THEN parseWeiString(offchainStatus.soldValue) ELSE 0
offchainHoldingValue ==
    IF offchainStatus # NoSnapshot THEN parseWeiString(offchainStatus.currentHoldingValue)
    ELSE 0
offchainLossAmount ==
    IF offchainStatus # NoSnapshot THEN parseWeiString(offchainStatus.lossAmount) ELSE 0

effectiveCostBasis ==
    IF offchainStatus # NoSnapshot THEN offchainCostBasis ELSE lossSnapshot.costBasis
\* A sold value read from the off-chain side whether or not there is a snapshot.
effectiveSoldValue_OffchainOnly == offchainSoldValue

effectiveSoldValue ==
    IF offchainStatus # NoSnapshot THEN offchainSoldValue ELSE lossSnapshot.soldValue
\* A holding value that is always the on-chain one.
effectiveHoldingValue_OnChainOnly == holdingValue

effectiveHoldingValue ==
    IF offchainStatus # NoSnapshot THEN offchainHoldingValue ELSE holdingValue
\* A loss amount that shows the cached number whatever its validity flag.
effectiveLossAmount_IgnoresValid ==
    IF offchainStatus # NoSnapshot THEN offchainLossAmount ELSE cachedLoss.loss

effectiveLossAmount ==
    IF offchainStatus # NoSnapshot THEN offchainLossAmount
    ELSE IF cachedLoss.valid THEN cachedLoss.loss ELSE 0


\* ------------------------------------------------------------- operations
\* One handler invocation.  amt: the parsed amount (burn flow) or the price
\* (subscribe) of the click's render; inv: the inviter resolved from that
\* render; read, fresh: the allowance read of the current handleBurn call;
\* via: how handleBurn was entered; confirmed, refreshed: the approval of this
\* chain was confirmed, and the refresh after it has completed; txAmt: the
\* amount argument of the call being awaited.
IdleOp ==
    [pc |-> "idle", kind |-> "none", amt |-> 0, inv |-> "", read |-> "none",
     fresh |-> 0, via |-> "none", confirmed |-> FALSE, refreshed |-> FALSE,
     txAmt |-> 0]

ClaimKinds ==
    {"claimBurnBNB", "claimBurnToken", "claimLoss", "claimNft", "claimNftMint"}

\* The loss claim button's threshold (stands for 10^15 wei, 0.001 ether).
MinLossDividend == 2

\* A click takes the lowest free slot.
FreeSlot(i) ==
    /\ i \in slots
    /\ ops[i].pc = "idle"
    /\ \A j \in slots : j < i => ops[j].pc # "idle"

Idle(i) == ops' = [ops EXCEPT ![i] = IdleOp]

address == IF isConnected THEN account ELSE Null

\* ------------------------------------------------------------- refresh
\* What one run of loadContractData reads.  "ok": every read answers;
\* "allowanceFail": the allowance call fails and yields its default;
\* "down": the read endpoint is unavailable and the first probe throws.
LoadOutcomes == {"ok", "allowanceFail", "down"}

ChainRefs ==
    [inviterOf |-> "0xB", rootInviter |-> "0xR", nftInviterOf |-> ZeroAddress,
     nftRootInviter |-> "0xR"]
ChainSnapshot == [costBasis |-> 7, soldValue |-> 3, dividendReceived |-> 1]
ChainHolding == 2 + 3

\* fetchOffchainStatus: the off-chain service is switched off.
fetchOffchainStatus == offchainStatus' = NoSnapshot

HoldingValueOf(bal, tRes, bRes) ==
    BigDiv(bal * BigDiv(bRes * WeiPerEther, tRes), WeiPerEther)

\* String.prototype.toLowerCase on the addresses of the model.
toLowerCase(s) ==
    CASE s = "0xT" -> "0xt"
      [] s = "0xW" -> "0xw"
      [] OTHER -> s

\* isToken0 compared without lowering the case.
isToken0_CaseSensitive(token0, tokenAddr) == token0 = tokenAddr

isToken0(token0, tokenAddr) == toLowerCase(token0) = toLowerCase(tokenAddr)

\* tokenReserve and bnbReserve out of getReserves() = <<reserve0, reserve1>>.
Orient(token0, tokenAddr, raw) ==
    IF isToken0(token0, tokenAddr)
    THEN [token |-> raw[1], bnb |-> raw[2]]
    ELSE [token |-> raw[2], bnb |-> raw[1]]

\* The remote calls of one refresh that have a catch of their own.
Calls ==
    {"token", "rootInviter", "inviterOf", "minBurnValue",
     "balanceOf", "allowance",
     "getUnpaidDividendBNB", "getUnpaidDividendToken",
     "pricePerShare", "nftRootInviter", "nftInviterOf",
     "userSnapshots", "getCachedLoss", "getUnpaidDividend",
     "pool", "getReserves", "token0", "holdingBalanceOf",
     "getClaimableNFTCount"}

\* What getCode answers for a configured group: bytecode, '0x', or a rejection.
Probes == {"code", "empty", "throws"}

\* The loss the unpaid-dividend query is made with: the cached loss when it is
\* valid, zero otherwise.
currentLoss_IgnoresValid(cached) == cached.loss
currentLoss(cached) == IF cached.valid THEN cached.loss ELSE 0

\* loadContractData, from its call to the end of its publication.  deploy:
\* which groups have a non-zero address in the registry; env: what the probes
\* answer and which calls fail.
Refresh(deploy, env) ==
    LET ok(c) == c \notin env.fails
        aborted == deploy.burnToken /\ env.burnToken = "throws"
        live == address # Null /\ ~aborted
        burnRan == live /\ deploy.burnToken /\ env.burnToken = "code"
        tAddr == IF ok("token") THEN TokenAddr ELSE ZeroAddress
        tokenAddr == IF burnRan THEN tAddr ELSE ZeroAddress
        tokenRan == live /\ tokenAddr # ZeroAddress
        nftRan == live /\ deploy.nftSubscription /\ env.nftSubscription = "code"
        lossRan == live /\ deploy.lossDividend
        lossReset == live /\ ~deploy.lossDividend
        snapshot == IF ok("userSnapshots") THEN ChainSnapshot
                    ELSE [costBasis |-> 0, soldValue |-> 0, dividendReceived |-> 0]
        cached == IF ok("getCachedLoss") THEN chain.cached
                  ELSE [loss |-> 0, valid |-> FALSE]
        pairRan == lossRan /\ ok("pool") /\ tokenAddr # ZeroAddress
        token0 == IF ok("token0") THEN chain.token0 ELSE ZeroAddress
        pairOk == pairRan /\ token0 # ZeroAddress
        raw == IF ok("getReserves") THEN <<chain.reserve0, chain.reserve1>>
               ELSE <<0, 0>>
        reserves == Orient(token0, tokenAddr, raw)
    IN  /\ fetchOffchainStatus
        /\ UNCHANGED <<urlRef, inviter, effective>>
        /\ tokenAddress' = IF burnRan THEN tAddr ELSE tokenAddress
        /\ rootInviter' =
               IF ~burnRan THEN rootInviter
               ELSE IF ok("rootInviter") THEN ChainRefs.rootInviter ELSE Null
        /\ inviterOnchain' =
               IF ~burnRan THEN inviterOnchain
               ELSE IF ok("inviterOf") THEN ChainRefs.inviterOf ELSE ZeroAddress
        /\ minBurnValue' =
               IF ~burnRan THEN minBurnValue
               ELSE IF ok("minBurnValue") THEN ChainMinBurnValue ELSE 0
        /\ tokenBalance' =
               IF ~tokenRan THEN tokenBalance
               ELSE IF ok("balanceOf") THEN ChainTokenBalance ELSE 0
        /\ allowance' =
               IF ~tokenRan THEN allowance
               ELSE IF ok("allowance") THEN chainAllowance ELSE 0
        /\ burnUnpaidBNB' =
               IF ~live THEN burnUnpaidBNB
               ELSE IF ok("getUnpaidDividendBNB") THEN ChainUnpaid.bnb ELSE 0
        /\ burnUnpaidToken' =
               IF ~live THEN burnUnpaidToken
               ELSE IF ok("getUnpaidDividendToken") THEN ChainUnpaid.token ELSE 0
        /\ nftSubPrice' =
               IF ~nftRan THEN nftSubPrice
               ELSE IF ok("pricePerShare") THEN ChainPricePerShare ELSE 0
        /\ nftSubRootInviter' =
               IF ~nftRan THEN nftSubRootInviter
               ELSE IF ok("nftRootInviter") THEN ChainRefs.nftRootInviter ELSE ""
        /\ nftInviterOnchain' =
               IF ~nftRan THEN nftInviterOnchain
               ELSE IF ok("nftInviterOf") THEN ChainRefs.nftInviterOf
               ELSE ZeroAddress
        /\ lossSnapshot' =
               IF lossRan THEN snapshot
               ELSE IF lossReset
               THEN [costBasis |-> 0, soldValue |-> 0, dividendReceived |-> 0]
               ELSE lossSnapshot
        /\ cachedLoss' =
               IF lossRan THEN cached
               ELSE IF lossReset THEN [loss |-> 0, valid |-> FALSE]
               ELSE cachedLoss
        /\ lossPendingDividend' =
               IF lossRan
               THEN IF currentLoss(cached) > 0 /\ ok("getUnpaidDividend")
                    THEN ChainUnpaid.loss ELSE 0
               ELSE IF lossReset THEN 0
               ELSE lossPendingDividend
        /\ tokenReserve' = IF pairOk THEN reserves.token ELSE tokenReserve
        /\ bnbReserve' = IF pairOk THEN reserves.bnb ELSE bnbReserve
        /\ holdingValue' =
               IF pairOk /\ reserves.token > 0 /\ ok("holdingBalanceOf")
               THEN HoldingValueOf(ChainTokenBalance, reserves.token, reserves.bnb)
               ELSE holdingValue
        /\ claimableNfts' =
               IF ~live THEN claimableNfts
               ELSE IF ok("getClaimableNFTCount") THEN ChainUnpaid.nfts ELSE 0

\* What a refresh of the full deployment meets under each outcome.
EnvOf(outcome) ==
    CASE outcome = "ok" ->
            [burnToken |-> "code", nftSubscription |-> "code", fails |-> {}]
      [] outcome = "allowanceFail" ->
            [burnToken |-> "code", nftSubscription |-> "code",
             fails |-> {"allowance"}]
      [] OTHER ->
            [burnToken |-> "throws", nftSubscription |-> "throws",
             fails |-> Calls]

\* loadContractData on the full deployment.
loadContractData(outcome) == Refresh(FullDeployment, EnvOf(outcome))

NoRefresh == UNCHANGED <<refVars, dataVars, reconVars>>

\* The polling effect: loadContractData on mount and every 15 s.
PollRefresh(outcome) ==
    /\ loadContractData(outcome)
    /\ alert' = NoAlert
    /\ UNCHANGED <<walletVars, burnAmount, isPending, lastAction, ops, envVars>>

\* ------------------------------------------------------------- environment
ChainIds == {56, 97}

\* The wallet connects on some chain.
WalletConnect(c) ==
    /\ ~isConnected
    /\ isConnected' = TRUE
    /\ chainId' = c
    /\ alert' = NoAlert
    /\ NoRefresh
    /\ UNCHANGED <<burnAmount, isPending, lastAction, ops, envVars>>

\* The owner changes the allowance out of band.
ExternalAllowanceChange(v) ==
    /\ extLeft > 0
    /\ v # chainAllowance
    /\ chainAllowance' = v
    /\ extLeft' = extLeft - 1
    /\ UNCHANGED <<slots, amm, load, auxVars>>
    /\ alert' = NoAlert
    /\ NoRefresh
    /\ UNCHANGED <<walletVars, burnAmount, isPending, lastAction, ops>>

\* The amount input's onChange.
EditBurnAmount(text) ==
    /\ text # burnAmount
    /\ burnAmount' = text
    /\ alert' = NoAlert
    /\ NoRefresh
    /\ UNCHANGED <<walletVars, isPending, lastAction, ops, envVars>>


\* ------------------------------------------------------------- approve, burn
\* token.approve(CONTRACTS.burnToken, ethers.MaxUint256)
ApproveAmount == MaxUint256

\* The catch of handleApprove and the finally of handleBurn and of the claims.
ResetPending ==
    /\ isPending' = FALSE
    /\ lastAction' = Null

\* handleApprove, to its first await.
handleApprove(i, op) ==
    IF signer = Null \/ tokenAddress = Null
    THEN /\ Idle(i)
         /\ UNCHANGED <<isPending, lastAction>>
    ELSE /\ isPending' = TRUE
         /\ lastAction' = "approve"
         /\ ops' = [ops EXCEPT ![i] =
                [op EXCEPT !.pc = "approveSend", !.txAmt = ApproveAmount,
                           !.read = "none", !.fresh = 0, !.via = "none",
                           !.confirmed = FALSE, !.refreshed = FALSE]]

\* BurnSubmit sending the amount of the input as it is now, not the amount
\* of the click's render.
BurnSubmit_CurrentInput(i, op) ==
    /\ isPending' = TRUE
    /\ lastAction' = "burn"
    /\ ops' = [ops EXCEPT ![i] =
           [op EXCEPT !.pc = "burnSend", !.txAmt = parsedBurnAmount]]

\* handleBurn past the allowance check, to the await of burn().
BurnSubmit(i, op) ==
    /\ isPending' = TRUE
    /\ lastAction' = "burn"
    /\ ops' = [ops EXCEPT ![i] = [op EXCEPT !.pc = "burnSend", !.txAmt = op.amt]]

\* handleBurn, to its first await.
handleBurn(i, op, via) ==
    IF signer = Null
    THEN /\ Idle(i)
         /\ UNCHANGED <<isPending, lastAction>>
    ELSE IF tokenAddress # Null
    THEN /\ ops' = [ops EXCEPT ![i] =
                [op EXCEPT !.pc = "burnAllow", !.via = via, !.read = "none",
                           !.fresh = 0]]
         /\ UNCHANGED <<isPending, lastAction>>
    ELSE BurnSubmit(i, [op EXCEPT !.via = via])

BurnButtonEnabled ==
    ~isPending /\ isConnected /\ parsedBurnAmount > 0 /\ tokenBalance # 0

\* The burn button's onClick when the burn-value check rejects the amount.
ClickBurnRejected ==
    /\ BurnButtonEnabled
    /\ burnAmount # ""
    /\ ~burnValueCheck.isValid
    /\ alert' = burnValueCheck.message
    /\ NoRefresh
    /\ UNCHANGED <<walletVars, burnAmount, isPending, lastAction, ops, envVars>>

\* The burn button's onClick when the check passes.
ClickBurnAccepted(i) ==
    /\ BurnButtonEnabled
    /\ burnAmount # ""
    /\ burnValueCheck.isValid
    /\ FreeSlot(i)
    /\ LET op == [IdleOp EXCEPT
                    !.kind = "burnflow", !.amt = parsedBurnAmount,
                    !.inv = burnInviterAddr(inviter, inviterOnchain, rootInviter)]
       IN  IF isApproveNeeded THEN handleApprove(i, op)
           ELSE handleBurn(i, op, "click")
    /\ alert' = NoAlert
    /\ NoRefresh
    /\ UNCHANGED <<walletVars, burnAmount, envVars>>

ClickBurnButton == ClickBurnRejected \/ \E i \in AllSlots : ClickBurnAccepted(i)

\* A handleApprove that does not await the confirmation of the approval.
ApproveSendResolve_NoWait(i) ==
    /\ ops[i].pc = "approveSend"
    /\ ops' = [ops EXCEPT ![i].pc = "approveLoad"]
    /\ alert' = NoAlert
    /\ NoRefresh
    /\ UNCHANGED <<walletVars, burnAmount, isPending, lastAction, envVars>>

\* approve() resolves: the wallet has sent the approval.
ApproveSendResolve(i) ==
    /\ ops[i].pc = "approveSend"
    /\ ops' = [ops EXCEPT ![i].pc = "approveWait"]
    /\ alert' = NoAlert
    /\ NoRefresh
    /\ UNCHANGED <<walletVars, burnAmount, isPending, lastAction, envVars>>

\* A catch of handleApprove that leaves the pending flag set.
ApproveFail_KeepsPending(i) ==
    /\ ops[i].pc \in {"approveSend", "approveWait"}
    /\ Idle(i)
    /\ alert' = NoAlert
    /\ NoRefresh
    /\ UNCHANGED <<walletVars, burnAmount, isPending, lastAction, envVars>>

\* approve() or tx.wait() rejects: the catch of handleApprove.
ApproveFail(i) ==
    /\ ops[i].pc \in {"approveSend", "approveWait"}
    /\ ResetPending
    /\ Idle(i)
    /\ alert' = NoAlert
    /\ NoRefresh
    /\ UNCHANGED <<walletVars, burnAmount, envVars>>

\* tx.wait() resolves: the approval is confirmed on chain.
ApproveWaitConfirm(i) ==
    /\ ops[i].pc = "approveWait"
    /\ chainAllowance' = ops[i].txAmt
    /\ ops' = [ops EXCEPT ![i].pc = "approveLoad", ![i].confirmed = TRUE]
    /\ alert' = NoAlert
    /\ NoRefresh
    /\ UNCHANGED <<walletVars, burnAmount, isPending, lastAction, extLeft, slots,
                   amm, load, auxVars>>

\* loadContractData() resolves; handleApprove goes on into handleBurn.
ApproveLoadDone(i, outcome) ==
    /\ ops[i].pc = "approveLoad"
    /\ loadContractData(outcome)
    /\ handleBurn(i, [ops[i] EXCEPT !.refreshed = TRUE], "approve")
    /\ alert' = NoAlert
    /\ UNCHANGED <<walletVars, burnAmount, envVars>>

\* token.allowance() resolves inside handleBurn.
BurnAllowResolve(i) ==
    /\ ops[i].pc = "burnAllow"
    /\ LET op == [ops[i] EXCEPT !.read = "ok", !.fresh = chainAllowance]
       IN  IF op.fresh < op.amt THEN handleApprove(i, op)
           ELSE BurnSubmit(i, op)
    /\ alert' = NoAlert
    /\ NoRefresh
    /\ UNCHANGED <<walletVars, burnAmount, envVars>>

\* token.allowance() rejects inside handleBurn: logged, and the burn goes on.
BurnAllowReject(i) ==
    /\ ops[i].pc = "burnAllow"
    /\ BurnSubmit(i, [ops[i] EXCEPT !.read = "failed"])
    /\ alert' = NoAlert
    /\ NoRefresh
    /\ UNCHANGED <<walletVars, burnAmount, envVars>>

\* burn() resolves: the wallet has sent the burn.
BurnSendResolve(i) ==
    /\ ops[i].pc = "burnSend"
    /\ ops' = [ops EXCEPT ![i].pc = "burnWait"]
    /\ alert' = NoAlert
    /\ NoRefresh
    /\ UNCHANGED <<walletVars, burnAmount, isPending, lastAction, envVars>>

\* The markers the catch of handleBurn looks for in the error message; an
\* error message is the set of markers it contains.
Markers == {"BELOW_MIN_BURN_VALUE", "INSUFFICIENT_INPUT_AMOUNT", "exceeds allowance"}
ErrorMessages == SUBSET Markers

\* ClassifyBurnError with the allowance marker looked for first.
ClassifyBurnError_AllowanceFirst(msg) ==
    IF "exceeds allowance" \in msg THEN Alert("burnAllowance")
    ELSE IF "BELOW_MIN_BURN_VALUE" \in msg THEN Alert("burnBelowMin")
    ELSE IF "INSUFFICIENT_INPUT_AMOUNT" \in msg THEN Alert("burnLiquidity")
    ELSE Alert("burnOther")

ClassifyBurnError(msg) ==
    IF "BELOW_MIN_BURN_VALUE" \in msg THEN Alert("burnBelowMin")
    ELSE IF "INSUFFICIENT_INPUT_AMOUNT" \in msg THEN Alert("burnLiquidity")
    ELSE IF "exceeds allowance" \in msg THEN Alert("burnAllowance")
    ELSE Alert("burnOther")

\* burn() or tx.wait() rejects: the catch and the finally of handleBurn.
BurnFail(i, msg) ==
    /\ ops[i].pc \in {"burnSend", "burnWait"}
    /\ alert' = ClassifyBurnError(msg)
    /\ ResetPending
    /\ Idle(i)
    /\ NoRefresh
    /\ UNCHANGED <<walletVars, burnAmount, envVars>>

\* BurnWaitConfirm without setBurnAmount('').
BurnWaitConfirm_KeepsInput(i) ==
    /\ ops[i].pc = "burnWait"
    /\ ops' = [ops EXCEPT ![i].pc = "burnLoad"]
    /\ alert' = NoAlert
    /\ NoRefresh
    /\ UNCHANGED <<walletVars, burnAmount, isPending, lastAction, envVars>>

\* tx.wait() resolves: the burn is confirmed; the input is cleared.
BurnWaitConfirm(i) ==
    /\ ops[i].pc = "burnWait"
    /\ burnAmount' = ""
    /\ ops' = [ops EXCEPT ![i].pc = "burnLoad"]
    /\ alert' = NoAlert
    /\ NoRefresh
    /\ UNCHANGED <<walletVars, isPending, lastAction, envVars>>

\* loadContractData() resolves: the finally of handleBurn.
BurnLoadDone(i, outcome) ==
    /\ ops[i].pc = "burnLoad"
    /\ loadContractData(outcome)
    /\ ResetPending
    /\ Idle(i)
    /\ alert' = NoAlert
    /\ UNCHANGED <<walletVars, burnAmount, envVars>>


\* ------------------------------------------------------------- claims
\* ClaimEnabled without the amount conditions of the buttons.
ClaimEnabled_NoAmounts(k) ==
    /\ ~isPending
    /\ isConnected

\* The disabled attribute of each claim button, negated.
ClaimEnabled(k) ==
    /\ ~isPending
    /\ isConnected
    /\ CASE k = "claimBurnBNB" -> burnUnpaidBNB > 0
         [] k = "claimBurnToken" -> burnUnpaidToken > 0
         [] k = "claimLoss" -> lossPendingDividend >= MinLossDividend
         [] k = "claimNftMint" -> claimableNfts # 0
         [] OTHER -> TRUE

\* handleClaimBurnBNB, handleClaimBurnToken, handleClaimLossDiv,
\* handleClaimNftDiv, handleClaimNFT, to the await of the claim call.
ClickClaim(k, i) ==
    /\ ClaimEnabled(k)
    /\ FreeSlot(i)
    /\ IF signer = Null
       THEN UNCHANGED <<isPending, lastAction, ops>>
       ELSE /\ isPending' = TRUE
            /\ lastAction' = k
            /\ ops' = [ops EXCEPT ![i] =
                   [IdleOp EXCEPT !.kind = k, !.pc = "claimSend"]]
    /\ alert' = NoAlert
    /\ NoRefresh
    /\ UNCHANGED <<walletVars, burnAmount, envVars>>

\* The claim call resolves: the wallet has sent the claim.
ClaimSendResolve(i) ==
    /\ ops[i].pc = "claimSend"
    /\ ops' = [ops EXCEPT ![i].pc = "claimWait"]
    /\ alert' = NoAlert
    /\ NoRefresh
    /\ UNCHANGED <<walletVars, burnAmount, isPending, lastAction, envVars>>

\* tx.wait() resolves: the claim is confirmed.
ClaimWaitConfirm(i) ==
    /\ ops[i].pc = "claimWait"
    /\ ops' = [ops EXCEPT ![i].pc = "claimLoad"]
    /\ alert' = NoAlert
    /\ NoRefresh
    /\ UNCHANGED <<walletVars, burnAmount, isPending, lastAction, envVars>>

\* The claim call or tx.wait() rejects: the catch and the finally.
ClaimFail(i) ==
    /\ ops[i].pc \in {"claimSend", "claimWait"}
    /\ ResetPending
    /\ Idle(i)
    /\ alert' = NoAlert
    /\ NoRefresh
    /\ UNCHANGED <<walletVars, burnAmount, envVars>>

\* loadContractData() resolves: the finally of the claim handler.
ClaimLoadDone(i, outcome) ==
    /\ ops[i].pc = "claimLoad"
    /\ loadContractData(outcome)
    /\ ResetPending
    /\ Idle(i)
    /\ alert' = NoAlert
    /\ UNCHANGED <<walletVars, burnAmount, envVars>>

\* ------------------------------------------------------------- subscribe
SubscribeEnabled == ~isPending /\ isConnected

\* handleSubscribe, to its first await.
ClickSubscribe(i) ==
    /\ SubscribeEnabled
    /\ FreeSlot(i)
    /\ IF ~isConnected THEN UNCHANGED ops
       ELSE IF chainId # 56
       THEN ops' = [ops EXCEPT ![i] =
                [IdleOp EXCEPT !.kind = "subscribe", !.pc = "subSwitch"]]
       ELSE IF signer = Null \/ address = Null THEN UNCHANGED ops
       ELSE ops' = [ops EXCEPT ![i] =
                [IdleOp EXCEPT
                    !.kind = "subscribe", !.pc = "subBalance",
                    !.amt = nftSubPrice,
                    !.inv = subscribeInviterAddress(nftInviterOnchain,
                                nftSubInviter, inviterFromUrl, nftSubRootInviter)]]
    /\ alert' = NoAlert
    /\ NoRefresh
    /\ UNCHANGED <<walletVars, burnAmount, isPending, lastAction, envVars>>

\* SubSwitchResolve going on to the balance read after the switch.
SubSwitchResolve_Continues(i) ==
    /\ ops[i].pc = "subSwitch"
    /\ chainId' = 56
    /\ ops' = [ops EXCEPT ![i].pc = "subBalance", ![i].amt = nftSubPrice]
    /\ alert' = NoAlert
    /\ NoRefresh
    /\ UNCHANGED <<isConnected, burnAmount, isPending, lastAction, envVars>>

\* switchNetwork(bsc) resolves: the wallet is on chain 56; the handler ends.
SubSwitchResolve(i) ==
    /\ ops[i].pc = "subSwitch"
    /\ chainId' = 56
    /\ Idle(i)
    /\ alert' = NoAlert
    /\ NoRefresh
    /\ UNCHANGED <<isConnected, burnAmount, isPending, lastAction, envVars>>

\* switchNetwork(bsc) rejects: an alert; the handler ends.
SubSwitchReject(i) ==
    /\ ops[i].pc = "subSwitch"
    /\ Idle(i)
    /\ alert' = Alert("switchNetwork")
    /\ NoRefresh
    /\ UNCHANGED <<walletVars, burnAmount, isPending, lastAction, envVars>>

\* handleSubscribe past the balance check, to the await of subscribe().
\* The registry is that of the click's render, where the chain was 56.
SubscribeSubmit(i, op) ==
    /\ lastAction' = "subscribe"
    /\ IF getContracts(56).nftSubscription = ZeroAddress
       THEN /\ isPending' = FALSE
            /\ Idle(i)
       ELSE /\ isPending' = TRUE
            /\ ops' = [ops EXCEPT ![i] =
                   [op EXCEPT !.pc = "subSend", !.txAmt = op.amt]]

\* provider.getBalance() resolves.
SubBalanceResolve(i, balance) ==
    /\ ops[i].pc = "subBalance"
    /\ IF balance < ops[i].amt
       THEN /\ alert' = Alert("insufficientBalance")
            /\ Idle(i)
            /\ UNCHANGED <<isPending, lastAction>>
       ELSE /\ alert' = NoAlert
            /\ SubscribeSubmit(i, [ops[i] EXCEPT !.read = "ok", !.fresh = balance])
    /\ NoRefresh
    /\ UNCHANGED <<walletVars, burnAmount, envVars>>

\* provider.getBalance() rejects: logged, and the subscription goes on.
SubBalanceReject(i) ==
    /\ ops[i].pc = "subBalance"
    /\ SubscribeSubmit(i, [ops[i] EXCEPT !.read = "failed"])
    /\ alert' = NoAlert
    /\ NoRefresh
    /\ UNCHANGED <<walletVars, burnAmount, envVars>>

\* subscribe() resolves: the wallet has sent the subscription.
SubSendResolve(i) ==
    /\ ops[i].pc = "subSend"
    /\ ops' = [ops EXCEPT ![i].pc = "subWait"]
    /\ alert' = NoAlert
    /\ NoRefresh
    /\ UNCHANGED <<walletVars, burnAmount, isPending, lastAction, envVars>>

\* tx.wait() resolves: the success alert, then the two reads are awaited.
SubWaitConfirm(i) ==
    /\ ops[i].pc = "subWait"
    /\ ops' = [ops EXCEPT ![i].pc = "subRead"]
    /\ alert' = Alert("subscribed")
    /\ NoRefresh
    /\ UNCHANGED <<walletVars, burnAmount, isPending, lastAction, envVars>>

\* The end of handleSubscribe: subscribe(), tx.wait() or the reads reject, or
\* the reads resolve; the finally clears the pending flag.
SubFinally(i) ==
    /\ ops[i].pc \in {"subSend", "subWait", "subRead"}
    /\ isPending' = FALSE
    /\ Idle(i)
    /\ alert' = NoAlert
    /\ NoRefresh
    /\ UNCHANGED <<walletVars, burnAmount, lastAction, envVars>>

\* ------------------------------------------------------------- specification
DefaultData ==
    /\ tokenAddress = Null
    /\ tokenBalance = 0
    /\ allowance = 0
    /\ minBurnValue = 0
    /\ tokenReserve = 0
    /\ bnbReserve = 0
    /\ burnUnpaidBNB = 0
    /\ burnUnpaidToken = 0
    /\ lossPendingDividend = 0
    /\ claimableNfts = 0
    /\ nftSubPrice = 0

DefaultRecon ==
    /\ offchainStatus = NoSnapshot
    /\ lossSnapshot = [costBasis |-> 0, soldValue |-> 0, dividendReceived |-> 0]
    /\ cachedLoss = [loss |-> 0, valid |-> FALSE]
    /\ holdingValue = 0
    /\ effective = [costBasis |-> 0, soldValue |-> 0, holdingValue |-> 0,
                    lossAmount |-> 0]

DefaultUi ==
    /\ burnAmount = ""
    /\ isPending = FALSE
    /\ lastAction = Null
    /\ alert = NoAlert
    /\ ops = [i \in AllSlots |-> IdleOp]

\* The component after its first render and mount effects, the wallet not
\* yet connected.
Init ==
    /\ isConnected = FALSE
    /\ chainId = 56
    /\ urlRef = Null
    /\ inviter = InviterAfterMount(urlRef)
    /\ inviterOnchain = Null
    /\ rootInviter = Null
    /\ nftInviterOnchain = Null
    /\ nftSubRootInviter = ""
    /\ DefaultData
    /\ DefaultRecon
    /\ DefaultUi
    /\ chainAllowance \in ChainAllowances
    /\ extLeft = MaxExternal
    /\ slots = 1..MaxOps
    /\ amm = NoQuote
    /\ load = NoLoad
    /\ chain = DefaultChain
    /\ poll = Polling
    /\ prompt = Prompted
    /\ race = NoRace
    /\ account = Account

\* One completion step of the handler invocation in slot i.
OpStep(i) ==
    \/ ApproveSendResolve(i)
    \/ ApproveFail(i)
    \/ ApproveWaitConfirm(i)
    \/ \E o \in LoadOutcomes : ApproveLoadDone(i, o)
    \/ BurnAllowResolve(i)
    \/ BurnAllowReject(i)
    \/ BurnSendResolve(i)
    \/ \E m \in ErrorMessages : BurnFail(i, m)
    \/ BurnWaitConfirm(i)
    \/ \E o \in LoadOutcomes : BurnLoadDone(i, o)
    \/ ClaimSendResolve(i)
    \/ ClaimWaitConfirm(i)
    \/ ClaimFail(i)
    \/ \E o \in LoadOutcomes : ClaimLoadDone(i, o)
    \/ SubSwitchResolve(i)
    \/ SubSwitchReject(i)
    \/ \E b \in NativeBalances : SubBalanceResolve(i, b)
    \/ SubBalanceReject(i)
    \/ SubSendResolve(i)
    \/ SubWaitConfirm(i)
    \/ SubFinally(i)

Next ==
    \/ \E c \in ChainIds : WalletConnect(c)
    \/ \E o \in LoadOutcomes : PollRefresh(o)
    \/ \E v \in ChainAllowances : ExternalAllowanceChange(v)
    \/ \E t \in BurnInputs : EditBurnAmount(t)
    \/ ClickBurnButton
    \/ \E k \in ClaimKinds, i \in AllSlots : ClickClaim(k, i)
    \/ \E i \in AllSlots : ClickSubscribe(i)
    \/ \E i \in AllSlots : OpStep(i)

Spec == Init /\ [][Next]_vars

\* The same component when a click may come while another invocation is in
\* flight.
ConcInit ==
    /\ isConnected = FALSE
    /\ chainId = 56
    /\ urlRef = Null
    /\ inviter = InviterAfterMount(urlRef)
    /\ inviterOnchain = Null
    /\ rootInviter = Null
    /\ nftInviterOnchain = Null
    /\ nftSubRootInviter = ""
    /\ DefaultData
    /\ DefaultRecon
    /\ DefaultUi
    /\ chainAllowance \in ChainAllowances
    /\ extLeft = MaxExternal
    /\ slots = AllSlots
    /\ amm = NoQuote
    /\ load = NoLoad
    /\ chain = DefaultChain
    /\ poll = Polling
    /\ prompt = Prompted
    /\ race = NoRace
    /\ account = Account

ConcSpec == ConcInit /\ [][Next]_vars

\* Every remote call and every wallet confirmation eventually resolves or
\* rejects: each invocation in flight eventually takes its next step.
LiveSpec == Spec /\ \A i \in AllSlots : WF_vars(OpStep(i))


\* ------------------------------------------------------------- referral runs
\* The component connected on chain 56 after a refresh has published what the
\* chain answers, an amount typed in; the referral candidates range over
\* everything the URL and the contracts can give.
UrlRefs == {Null, "", "abc", "0xZZ", ZeroAddress, "0xA"}

RefInit ==
    /\ isConnected = TRUE
    /\ chainId = 56
    /\ urlRef \in UrlRefs
    /\ inviter = InviterAfterMount(urlRef)
    /\ inviterOnchain \in {Null, ZeroAddress, "0xB"}
    /\ rootInviter \in {Null, ZeroAddress, "0xR"}
    /\ nftInviterOnchain \in {Null, ZeroAddress, "0xB"}
    /\ nftSubRootInviter \in {"", ZeroAddress, "0xR"}
    /\ tokenAddress = TokenAddr
    /\ tokenBalance = ChainTokenBalance
    /\ allowance = MaxUint256
    /\ minBurnValue = ChainMinBurnValue
    /\ tokenReserve = ChainReserves.token
    /\ bnbReserve = ChainReserves.bnb
    /\ burnUnpaidBNB = 0
    /\ burnUnpaidToken = 0
    /\ lossPendingDividend = 0
    /\ claimableNfts = 0
    /\ nftSubPrice = ChainPricePerShare
    /\ DefaultRecon
    /\ burnAmount = "2"
    /\ isPending = FALSE
    /\ lastAction = Null
    /\ alert = NoAlert
    /\ ops = [i \in AllSlots |-> IdleOp]
    /\ chainAllowance = MaxUint256
    /\ extLeft = 0
    /\ slots = 1..MaxOps
    /\ amm = NoQuote
    /\ load = NoLoad
    /\ chain = DefaultChain
    /\ poll = Polling
    /\ prompt = Prompted
    /\ race = NoRace
    /\ account = Account

\* The burn and subscribe flows; the refresh after a burn finds the read
\* endpoint unavailable and publishes nothing.
RefNext ==
    \/ \E i \in AllSlots : ClickBurnAccepted(i)
    \/ \E i \in AllSlots : BurnAllowResolve(i)
    \/ \E i \in AllSlots : BurnAllowReject(i)
    \/ \E i \in AllSlots : BurnSendResolve(i)
    \/ \E i \in AllSlots, m \in ErrorMessages : BurnFail(i, m)
    \/ \E i \in AllSlots : BurnWaitConfirm(i)
    \/ \E i \in AllSlots : BurnLoadDone(i, "down")
    \/ \E t \in BurnInputs : EditBurnAmount(t)
    \/ \E i \in AllSlots : ClickSubscribe(i)
    \/ \E i \in AllSlots, b \in NativeBalances : SubBalanceResolve(i, b)
    \/ \E i \in AllSlots : SubBalanceReject(i)
    \/ \E i \in AllSlots : SubSendResolve(i)
    \/ \E i \in AllSlots : SubWaitConfirm(i)
    \/ \E i \in AllSlots : SubFinally(i)

RefSpec == RefInit /\ [][RefNext]_vars

\* ------------------------------------------------------------- reconciliation runs
\* The reconciliation as a function of its inputs: every off-chain snapshot
\* and both validity flags of the cached loss.
OffchainSnapshots ==
    [costBasis : OffchainField, soldValue : OffchainField,
     currentHoldingValue : OffchainField, lossAmount : OffchainField]

ReconInit ==
    /\ isConnected = FALSE
    /\ chainId = 56
    /\ urlRef = Null
    /\ inviter = ""
    /\ inviterOnchain = Null
    /\ rootInviter = Null
    /\ nftInviterOnchain = Null
    /\ nftSubRootInviter = ""
    /\ DefaultData
    /\ offchainStatus \in {NoSnapshot} \cup OffchainSnapshots
    /\ lossSnapshot = ChainSnapshot
    /\ cachedLoss \in {[loss |-> ChainCachedLoss.loss, valid |-> v] : v \in BOOLEAN}
    /\ holdingValue = ChainHolding
    /\ effective = [costBasis |-> 0, soldValue |-> 0, holdingValue |-> 0,
                    lossAmount |-> 0]
    /\ DefaultUi
    /\ chainAllowance = 0
    /\ extLeft = 0
    /\ slots = 1..MaxOps
    /\ amm = NoQuote
    /\ load = NoLoad
    /\ chain = DefaultChain
    /\ poll = Polling
    /\ prompt = Prompted
    /\ race = NoRace
    /\ account = Account

\* A render: the effective position shown.
Render ==
    /\ effective' = [costBasis |-> effectiveCostBasis,
                     soldValue |-> effectiveSoldValue,
                     holdingValue |-> effectiveHoldingValue,
                     lossAmount |-> effectiveLossAmount]
    /\ UNCHANGED <<walletVars, refVars, dataVars, offchainStatus, lossSnapshot,
                   cachedLoss, holdingValue, burnAmount, isPending, lastAction,
                   alert, ops, envVars>>

\* The effect that calls fetchOffchainStatus.
FetchOffchain ==
    /\ fetchOffchainStatus
    /\ UNCHANGED <<walletVars, refVars, dataVars, lossSnapshot, cachedLoss,
                   holdingValue, effective, burnAmount, isPending, lastAction,
                   alert, ops, envVars>>

ReconNext == Render \/ FetchOffchain

ReconSpec == ReconInit /\ [][ReconNext]_vars


\* ------------------------------------------------------------- pricing runs
\* The two pricing functions as functions of their inputs: the reserves and
\* the minimum burn value a refresh can publish, and the amount of a quote.
MaxReserve == 6
MaxAmount == 8
ReserveValues == (-1..MaxReserve) \cup {100, 1000}
MinValues == -1..(MaxReserve + 1)
AmountValues == -1..MaxAmount

AmmInit ==
    /\ isConnected = FALSE
    /\ chainId = 56
    /\ urlRef = Null
    /\ inviter = ""
    /\ inviterOnchain = Null
    /\ rootInviter = Null
    /\ nftInviterOnchain = Null
    /\ nftSubRootInviter = ""
    /\ tokenAddress = Null
    /\ tokenBalance = 0
    /\ allowance = 0
    /\ minBurnValue \in MinValues
    /\ tokenReserve \in ReserveValues
    /\ bnbReserve \in ReserveValues
    /\ burnUnpaidBNB = 0
    /\ burnUnpaidToken = 0
    /\ lossPendingDividend = 0
    /\ claimableNfts = 0
    /\ nftSubPrice = 0
    /\ DefaultRecon
    /\ DefaultUi
    /\ chainAllowance = 0
    /\ extLeft = 0
    /\ slots = 1..MaxOps
    /\ amm \in {[NoQuote EXCEPT !.amountIn = a] : a \in AmountValues}
    /\ load = NoLoad
    /\ chain = DefaultChain
    /\ poll = Polling
    /\ prompt = Prompted
    /\ race = NoRace
    /\ account = Account

\* calculateBurnValue applied to the amount.
Quote ==
    /\ ~amm.quoted
    /\ amm' = [amm EXCEPT !.quoted = TRUE,
                          !.burnValue = calculateBurnValue(amm.amountIn)]
    /\ UNCHANGED <<walletVars, refVars, dataVars, reconVars, burnAmount,
                   isPending, lastAction, alert, ops, chainAllowance, extLeft,
                   slots, load, auxVars>>

\* calculateMinTokenAmount applied to the minimum burn value, as burnValueCheck
\* applies it, and the quote of its result.
Invert ==
    /\ ~amm.inverted
    /\ LET minTokens == calculateMinTokenAmount(minBurnValue)
       IN  amm' = [amm EXCEPT !.inverted = TRUE, !.minTokens = minTokens,
                              !.roundTrip = calculateBurnValue(minTokens)]
    /\ UNCHANGED <<walletVars, refVars, dataVars, reconVars, burnAmount,
                   isPending, lastAction, alert, ops, chainAllowance, extLeft,
                   slots, load, auxVars>>

AmmNext == Quote \/ Invert

AmmSpec == AmmInit /\ [][AmmNext]_vars

\* ------------------------------------------------------------- refresh runs
\* Refreshes of a connected account under every deployment: each meets no
\* failure, one failing call, or failing calls throughout, and any answer of
\* the two bytecode probes.
MaxLoads == 2
Deployments ==
    [burnToken : BOOLEAN, nftSubscription : BOOLEAN, lossDividend : BOOLEAN]
LoadEnvs ==
    {[burnToken |-> b, nftSubscription |-> n, fails |-> f] :
        b \in Probes, n \in Probes, f \in {{}, Calls}}
    \cup {[burnToken |-> "code", nftSubscription |-> "code", fails |-> {c}] :
            c \in Calls}

\* The pair with the token as token0 (in either case), as token1, or with
\* token0 reading as the zero address.
PairLayouts ==
    {DefaultChain,
     [DefaultChain EXCEPT !.token0 = toLowerCase(TokenAddr)],
     [DefaultChain EXCEPT !.token0 = WrappedNative,
         !.reserve0 = ChainReserves.bnb, !.reserve1 = ChainReserves.token],
     [DefaultChain EXCEPT !.token0 = ZeroAddress]}

\* What getCachedLoss can answer: a valid positive loss, a valid loss of zero,
\* or a loss that is not valid.
CachedLosses ==
    {ChainCachedLoss, [loss |-> 0, valid |-> TRUE],
     [loss |-> ChainCachedLoss.loss, valid |-> FALSE], [loss |-> 0, valid |-> FALSE]}

LoadInit ==
    /\ isConnected = TRUE
    /\ chainId = 56
    /\ urlRef = Null
    /\ inviter = ""
    /\ inviterOnchain = Null
    /\ rootInviter = Null
    /\ nftInviterOnchain = Null
    /\ nftSubRootInviter = ""
    /\ DefaultData
    /\ DefaultRecon
    /\ DefaultUi
    /\ chainAllowance = MaxUint256
    /\ extLeft = 0
    /\ slots = 1..MaxOps
    /\ amm = NoQuote
    /\ load \in {[NoLoad EXCEPT !.deploy = d] : d \in Deployments}
    /\ chain \in {[l EXCEPT !.cached = c] : l \in PairLayouts, c \in CachedLosses}
    /\ poll = Polling
    /\ prompt = Prompted
    /\ race = NoRace
    /\ account = Account

\* One run of loadContractData (the polling effect).
LoadRefresh(env) ==
    /\ load.n < MaxLoads
    /\ Refresh(load.deploy, env)
    /\ load' = [load EXCEPT !.n = @ + 1, !.env = env]
    /\ UNCHANGED <<walletVars, burnAmount, isPending, lastAction, alert, ops,
                   chainAllowance, extLeft, slots, amm, auxVars>>

LoadNext == \E env \in LoadEnvs : LoadRefresh(env)

LoadSpec == LoadInit /\ [][LoadNext]_vars

\* ------------------------------------------------------------- pool moves
\* Runs in which other traders move the pool between two polling cycles.
MaxMoves == 1
PoolStates == {<<ChainReserves.token, ChainReserves.bnb>>,
               <<ChainReserves.token, ChainReserves.bnb \div 10>>}

\* A swap by someone else changes the pair's reserves on chain.
ChainMove(p) ==
    /\ chain.moves < MaxMoves
    /\ p # <<chain.reserve0, chain.reserve1>>
    /\ chain' = [chain EXCEPT !.reserve0 = p[1], !.reserve1 = p[2],
                              !.moves = @ + 1]
    /\ alert' = NoAlert
    /\ NoRefresh
    /\ UNCHANGED <<walletVars, burnAmount, isPending, lastAction, ops,
                   chainAllowance, extLeft, slots, amm, load, poll, prompt,
                   race, account>>

MoveNext == Next \/ \E p \in PoolStates : ChainMove(p)

MoveSpec == Init /\ [][MoveNext]_vars

\* ------------------------------------------------------------- overlapping refreshes
\* loadContractData await by await, on the full deployment with every call
\* answered.  Each stage is one awaited batch and the setters that follow it.
Stages ==
    <<"burnToken", "token", "burnDividend", "nftSubscription", "lossBatch",
      "lossPending", "pair", "nftDividend">>

\* A second account of the same wallet, and the token balance of each.
OtherAccount == "0xYOU"
Accounts == {Account, OtherAccount}
BalanceOf(a) ==
    IF a = Account THEN ChainTokenBalance ELSE ChainTokenBalance + WeiPerEther

\* The values of a stage's batch that the chain can change during a run.
StageReads(g, got) ==
    CASE g = "token" ->
            [got EXCEPT !.allowance = chainAllowance,
                        !.tokenBalance = BalanceOf(got.acct)]
      [] g = "pair" ->
            LET reserves == Orient(chain.token0, TokenAddr,
                                   <<chain.reserve0, chain.reserve1>>)
            IN  [got EXCEPT !.tokenReserve = reserves.token,
                            !.bnbReserve = reserves.bnb]
      [] OTHER -> got

\* The setters that follow the batch of stage g.
StagePublish(g, got) ==
    /\ tokenAddress' = IF g = "burnToken" THEN TokenAddr ELSE tokenAddress
    /\ rootInviter' = IF g = "burnToken" THEN ChainRefs.rootInviter ELSE rootInviter
    /\ inviterOnchain' = IF g = "burnToken" THEN ChainRefs.inviterOf ELSE inviterOnchain
    /\ minBurnValue' = IF g = "burnToken" THEN ChainMinBurnValue ELSE minBurnValue
    /\ tokenBalance' = IF g = "token" THEN got.tokenBalance ELSE tokenBalance
    /\ allowance' = IF g = "token" THEN got.allowance ELSE allowance
    /\ burnUnpaidBNB' = IF g = "burnDividend" THEN ChainUnpaid.bnb ELSE burnUnpaidBNB
    /\ burnUnpaidToken' =
           IF g = "burnDividend" THEN ChainUnpaid.token ELSE burnUnpaidToken
    /\ nftSubPrice' = IF g = "nftSubscription" THEN ChainPricePerShare ELSE nftSubPrice
    /\ nftSubRootInviter' =
           IF g = "nftSubscription" THEN ChainRefs.nftRootInviter
           ELSE nftSubRootInviter
    /\ nftInviterOnchain' =
           IF g = "nftSubscription" THEN ChainRefs.nftInviterOf
           ELSE nftInviterOnchain
    /\ lossSnapshot' = IF g = "lossBatch" THEN ChainSnapshot ELSE lossSnapshot
    /\ cachedLoss' = IF g = "lossBatch" THEN chain.cached ELSE cachedLoss
    /\ lossPendingDividend' =
           IF g # "lossPending" THEN lossPendingDividend
           ELSE IF currentLoss(chain.cached) > 0
           THEN ChainUnpaid.loss ELSE 0
    /\ tokenReserve' = IF g = "pair" THEN got.tokenReserve ELSE tokenReserve
    /\ bnbReserve' = IF g = "pair" THEN got.bnbReserve ELSE bnbReserve
    /\ holdingValue' =
           IF g = "pair" /\ got.tokenReserve > 0
           THEN HoldingValueOf(ChainTokenBalance, got.tokenReserve, got.bnbReserve)
           ELSE holdingValue
    /\ claimableNfts' = IF g = "nftDividend" THEN ChainUnpaid.nfts ELSE claimableNfts
    /\ UNCHANGED <<urlRef, inviter, offchainStatus, effective>>

RaceRest ==
    UNCHANGED <<walletVars, burnAmount, isPending, lastAction, alert, ops,
                chainAllowance, extLeft, slots, amm, load, chain, poll, prompt,
                account>>

\* A refresh starts (a polling tick, or the end of a transaction): the part of
\* loadContractData before its first await.
RaceStart(r) ==
    /\ race.runs[r].stage = 0
    /\ address # Null
    /\ fetchOffchainStatus
    /\ race' = [race EXCEPT !.runs[r].stage = 1, !.runs[r].got.acct = address]
    /\ UNCHANGED <<refVars, dataVars, lossSnapshot, cachedLoss, holdingValue,
                   effective>>
    /\ RaceRest

\* The batch of the run's next stage is sent: the chain answers with what it
\* holds now.
RaceIssue(r) ==
    LET run == race.runs[r]
    IN  /\ run.stage \in 1..Len(Stages)
        /\ ~run.waiting
        /\ race' = [race EXCEPT
                      !.runs[r].waiting = TRUE,
                      !.runs[r].got = StageReads(Stages[run.stage], run.got)]
        /\ NoRefresh
        /\ RaceRest

\* The batch resolves: the setters run; after the last stage the refresh has
\* completed.
RaceResolve(r) ==
    LET run == race.runs[r]
    IN  /\ run.stage \in 1..Len(Stages)
        /\ run.waiting
        /\ StagePublish(Stages[run.stage], run.got)
        /\ race' = [race EXCEPT
                      !.runs[r].waiting = FALSE,
                      !.runs[r].stage = run.stage + 1,
                      !.order = IF run.stage = Len(Stages)
                                THEN Append(@, r) ELSE @]
        /\ RaceRest

RaceInit ==
    /\ isConnected = TRUE
    /\ chainId = 56
    /\ urlRef = Null
    /\ inviter = ""
    /\ inviterOnchain = Null
    /\ rootInviter = Null
    /\ nftInviterOnchain = Null
    /\ nftSubRootInviter = ""
    /\ DefaultData
    /\ DefaultRecon
    /\ DefaultUi
    /\ chainAllowance = 0
    /\ extLeft = MaxExternal
    /\ slots = 1..MaxOps
    /\ amm = NoQuote
    /\ load = NoLoad
    /\ chain = DefaultChain
    /\ poll = Polling
    /\ prompt = Prompted
    /\ race = NoRace
    /\ account = Account

\* The allowance changes on chain while refreshes run (an approval confirmed).
RaceAllowanceChange(v) ==
    /\ extLeft > 0
    /\ v # chainAllowance
    /\ chainAllowance' = v
    /\ extLeft' = extLeft - 1
    /\ NoRefresh
    /\ UNCHANGED <<walletVars, burnAmount, isPending, lastAction, alert, ops,
                   slots, amm, load, auxVars>>

RaceNext ==
    \/ \E r \in RefreshIds : RaceStart(r) \/ RaceIssue(r) \/ RaceResolve(r)
    \/ \E p \in PoolStates : ChainMove(p)
    \/ RaceAllowanceChange(MaxUint256)

RaceSpec == RaceInit /\ [][RaceNext]_vars

\* ------------------------------------------------------------- effects
\* The polling effect and the auto-open effect over the life of the
\* component: mount, connect, disconnect, network change, re-render, unmount.
MaxTimers == 3

\* clearInterval(interval) without effect.
PollCleanup_Leaks(p) == p

\* The cleanup of the polling effect: clearInterval of the interval this
\* effect run has set.
PollCleanup(p) == [p EXCEPT !.timers = @ \ {p.made}]

\* The body of the polling effect: loadContractData() is called and an
\* interval is set.
PollEffect(p) ==
    [p EXCEPT !.made = @ + 1, !.timers = @ \cup {p.made + 1},
              !.loading = "effect"]

\* clearTimeout(timer) without effect.
PromptCleanup_Leaks(q) == q

\* The cleanup of the auto-open effect: clearTimeout of the timer this
\* effect run has set.
PromptCleanup(q) == [q EXCEPT !.timers = @ \ {q.made}]

\* The body of the auto-open effect.
AutoOpenEffect(q, connected) ==
    IF ~q.hasAutoOpened /\ ~connected
    THEN [q EXCEPT !.made = @ + 1, !.timers = @ \cup {q.made + 1}]
    ELSE q

\* The timer counter stays within the bound.
CanArm(q) == q.hasAutoOpened \/ q.made < MaxTimers

LifeRest ==
    /\ NoRefresh
    /\ UNCHANGED <<burnAmount, isPending, lastAction, alert, ops,
                   chainAllowance, extLeft, slots, amm, load, chain, race,
                   account>>

\* The wallet connects: address and isConnected change, both effects re-run.
LifeConnect(c) ==
    /\ poll.mounted /\ poll.made < MaxTimers
    /\ ~isConnected
    /\ isConnected' = TRUE
    /\ chainId' = c
    /\ prompt' = AutoOpenEffect(PromptCleanup(prompt), TRUE)
    /\ poll' = PollEffect(PollCleanup(poll))
    /\ LifeRest

\* The wallet disconnects.
LifeDisconnect ==
    /\ poll.mounted /\ poll.made < MaxTimers
    /\ isConnected
    /\ CanArm(prompt)
    /\ isConnected' = FALSE
    /\ chainId' = chainId
    /\ prompt' = AutoOpenEffect(PromptCleanup(prompt), FALSE)
    /\ poll' = PollEffect(PollCleanup(poll))
    /\ LifeRest

\* The network changes: readRpc and with it loadContractData are re-created.
LifeSwitchChain(c) ==
    /\ poll.mounted /\ poll.made < MaxTimers
    /\ isConnected
    /\ c # chainId
    /\ chainId' = c
    /\ poll' = PollEffect(PollCleanup(poll))
    /\ UNCHANGED <<isConnected, prompt>>
    /\ LifeRest

\* A re-render in which useAppKit returns a new open: the auto-open effect
\* re-runs.
LifeRerender ==
    /\ poll.mounted
    /\ CanArm(prompt)
    /\ prompt' = AutoOpenEffect(PromptCleanup(prompt), isConnected)
    /\ UNCHANGED <<walletVars, poll>>
    /\ LifeRest

\* An auto-open timer fires: its callback saw isConnected false when it was
\* armed; open() and setHasAutoOpened(true); the effect re-runs on the new
\* flag.
PromptFire(t) ==
    /\ t \in prompt.timers
    /\ prompt' = AutoOpenEffect(
                    PromptCleanup([prompt EXCEPT !.hasAutoOpened = TRUE,
                                                 !.timers = @ \ {t},
                                                 !.opens = @ + 1]),
                    isConnected)
    /\ UNCHANGED <<walletVars, poll>>
    /\ LifeRest

\* An interval fires: loadContractData is called.
PollTick(t) ==
    /\ t \in poll.timers
    /\ poll.loading = "none"
    /\ poll' = [poll EXCEPT !.loading = "tick"]
    /\ UNCHANGED <<walletVars, prompt>>
    /\ LifeRest

\* The loadContractData call of the effect or of a tick completes.
LifeLoadDone(outcome) ==
    /\ poll.loading # "none"
    /\ loadContractData(outcome)
    /\ poll' = [poll EXCEPT !.loading = "none"]
    /\ UNCHANGED <<walletVars, burnAmount, isPending, lastAction, alert, ops,
                   chainAllowance, extLeft, slots, amm, load, chain, prompt,
                   race, account>>

\* The component is torn down: the cleanups of both effects run.
LifeUnmount ==
    /\ poll.mounted
    /\ poll' = [PollCleanup(poll) EXCEPT !.mounted = FALSE]
    /\ prompt' = PromptCleanup(prompt)
    /\ UNCHANGED walletVars
    /\ LifeRest

\* The effects run again with the state kept (React.StrictMode's second
\* mount).
LifeMount ==
    /\ ~poll.mounted /\ poll.made < MaxTimers
    /\ CanArm(prompt)
    /\ poll' = [PollEffect(poll) EXCEPT !.mounted = TRUE]
    /\ prompt' = AutoOpenEffect(prompt, isConnected)
    /\ UNCHANGED walletVars
    /\ LifeRest

\* The component after its first render and its mount effects.
LifeInit ==
    /\ isConnected = FALSE
    /\ chainId \in ChainIds
    /\ urlRef = Null
    /\ inviter = ""
    /\ inviterOnchain = Null
    /\ rootInviter = Null
    /\ nftInviterOnchain = Null
    /\ nftSubRootInviter = ""
    /\ DefaultData
    /\ DefaultRecon
    /\ DefaultUi
    /\ chainAllowance = MaxUint256
    /\ extLeft = 0
    /\ slots = 1..MaxOps
    /\ amm = NoQuote
    /\ load = NoLoad
    /\ chain = DefaultChain
    /\ poll = [mounted |-> TRUE, timers |-> {1}, made |-> 1, loading |-> "effect"]
    /\ prompt = [hasAutoOpened |-> FALSE, timers |-> {1}, made |-> 1, opens |-> 0]
    /\ race = NoRace
    /\ account = Account

LifeNext ==
    \/ \E c \in ChainIds : LifeConnect(c)
    \/ LifeDisconnect
    \/ \E c \in ChainIds : LifeSwitchChain(c)
    \/ LifeRerender
    \/ \E t \in 1..MaxTimers : PromptFire(t)
    \/ \E t \in 1..MaxTimers : PollTick(t)
    \/ \E o \in LoadOutcomes : LifeLoadDone(o)
    \/ LifeUnmount
    \/ LifeMount

LifeSpec == LifeInit /\ [][LifeNext]_vars

\* ------------------------------------------------------------- account change
\* The wallet switches to another account: address changes, loadContractData
\* is re-created and the polling effect re-runs, which calls it at once for
\* the new account.  A refresh in flight for the previous account goes on.
AccountChange(a, r) ==
    /\ isConnected
    /\ a # account
    /\ poll.made < MaxTimers
    /\ race.runs[r].stage = 0
    /\ account' = a
    /\ poll' = PollEffect(PollCleanup(poll))
    /\ fetchOffchainStatus
    /\ race' = [race EXCEPT !.runs[r].stage = 1, !.runs[r].got.acct = a]
    /\ UNCHANGED <<refVars, dataVars, lossSnapshot, cachedLoss, holdingValue,
                   effective>>
    /\ UNCHANGED <<walletVars, burnAmount, isPending, lastAction, alert, ops,
                   chainAllowance, extLeft, slots, amm, load, chain, prompt>>

SwitchNext ==
    \/ \E r \in RefreshIds : RaceStart(r) \/ RaceIssue(r) \/ RaceResolve(r)
    \/ \E a \in Accounts, r \in RefreshIds : AccountChange(a, r)

SwitchSpec == RaceInit /\ [][SwitchNext]_vars

\* ------------------------------------------------------------- properties
InFlight(i) == ops[i].pc # "idle"
BurnSubmitted(i) == ops[i].kind = "burnflow" /\ ops[i].pc \in {"burnSend", "burnWait"}
SubscribeSubmitted(i) == ops[i].kind = "subscribe" /\ ops[i].pc \in {"subSend", "subWait"}

\* C1: at most one transaction operation is in progress at any instant, the
\* stretch of an operation before it sets the pending flag (its reads before
\* submission) included.
C1_AtMostOneOperation ==
    Cardinality({i \in AllSlots : InFlight(i)}) <= 1

\* C2: for every kind of operation, once the operation has set the pending
\* flag the flag is eventually false again, however the operation ends.
C2_PendingEventuallyCleared ==
    \A k \in {"approve", "burn", "subscribe"} \cup ClaimKinds :
        (isPending /\ lastAction = k) ~> ~isPending

C2_Witness ==
    /\ ~isPending
    /\ alert.kind \in {"burnOther", "burnAllowance"}
    /\ \A i \in AllSlots : ~InFlight(i)

\* C3: a burn is submitted only after an allowance read made in the same
\* handleBurn call returned at least the burn amount; the cached allowance is
\* never what lets the burn through.
C3_BurnOnlyAfterFreshRead ==
    \A i \in AllSlots :
        (ops[i].kind = "burnflow" /\ ops[i].pc \in {"burnSend", "burnWait", "burnLoad"})
            => (ops[i].read = "ok" /\ ops[i].fresh >= ops[i].amt)

\* C4: a burn click made while the cached allowance is below the amount and
\* the on-chain allowance is at least the amount goes straight into the burn
\* (the allowance re-read of handleBurn) and submits no approval.
C4_StaleCacheGoesToBurn ==
    [][\A i \in AllSlots :
          (/\ ops[i].pc = "idle"
           /\ ops'[i].pc # "idle"
           /\ ops'[i].kind = "burnflow"
           /\ allowance < ops'[i].amt
           /\ chainAllowance >= ops'[i].amt)
              => ops'[i].pc = "burnAllow"]_vars

\* C5: an approval asks for the maximum unsigned value; handleBurn is entered
\* from handleApprove only after the approval was confirmed and the refresh
\* after it completed, and it is entered then without a click.
C5_ApproveThenBurn ==
    \A i \in AllSlots :
        /\ ops[i].pc \in {"approveSend", "approveWait"} => ops[i].txAmt = MaxUint256
        /\ ops[i].via = "approve" => (ops[i].confirmed /\ ops[i].refreshed)
        /\ ops[i].refreshed => ops[i].confirmed
        /\ ops[i].pc = "approveLoad" => ops[i].confirmed
        /\ ops[i].refreshed =>
              (ops[i].via = "approve"
               /\ ops[i].pc \in {"burnAllow", "burnSend", "burnWait", "burnLoad"})

C5_Witness ==
    \E i \in AllSlots :
        /\ ops[i].via = "approve"
        /\ ops[i].pc = "burnSend"
        /\ ops[i].read = "ok"
        /\ chainAllowance = MaxUint256

\* C6: a click on the burn button whose amount quotes below the minimum burn
\* value submits nothing, leaves the pending flag false and shows the message
\* carrying the inverse minimum input amount (its whole tokens).
C6_BelowMinimumRejected ==
    [][(/\ BurnButtonEnabled
        /\ burnAmount # ""
        /\ calculateBurnValue(parsedBurnAmount) < minBurnValue
        /\ ClickBurnButton)
          => (/\ ops' = ops
              /\ ~isPending'
              /\ chainAllowance' = chainAllowance
              /\ alert'.kind = "belowMin"
              /\ alert' = BelowMinMessage(calculateMinTokenAmount(minBurnValue)))]_vars

C6_Witness ==
    /\ alert.kind = "belowMin"
    /\ alert.whole > 0
    /\ ~isPending
    /\ calculateBurnValue(parsedBurnAmount) < minBurnValue

\* A candidate of the referral resolution counts when it is neither empty nor
\* the zero address.
Present(c) == Truthy(c) /\ c # ZeroAddress

RECURSIVE FirstPresent(_)
FirstPresent(cands) ==
    IF cands = <<>> THEN ZeroAddress
    ELSE IF Present(Head(cands)) THEN Head(cands)
    ELSE FirstPresent(Tail(cands))

\* C7: when an inviter is bound on chain for the account, it is the inviter
\* argument of the submitted transaction, in the burn flow and in the
\* subscribe flow, whatever the URL or the manual entry give.
C7_BoundInviterWins ==
    \A i \in AllSlots :
        /\ (BurnSubmitted(i) /\ Present(inviterOnchain))
              => ops[i].inv = inviterOnchain
        /\ (SubscribeSubmitted(i) /\ Present(nftInviterOnchain))
              => ops[i].inv = nftInviterOnchain

\* C8: the inviter argument is the first present candidate in the order
\* on-chain bound, manual entry, URL referral, root inviter, and the zero
\* address when none is present; a zero-address or empty candidate is absent.
C8_ResolutionOrder ==
    \A i \in AllSlots :
        /\ BurnSubmitted(i) =>
              ops[i].inv = FirstPresent(<<inviterOnchain, inviter,
                                          InviterAfterMount(urlRef), rootInviter>>)
        /\ SubscribeSubmitted(i) =>
              ops[i].inv = FirstPresent(<<nftInviterOnchain, nftSubInviter,
                                          inviterFromUrl, nftSubRootInviter>>)

\* C9: a URL or manual referral that is not a well-formed address is never
\* the inviter argument of a burn or a subscribe.
C9_MalformedReferralAbsent ==
    \A i \in AllSlots :
        (BurnSubmitted(i) \/ SubscribeSubmitted(i)) => isAddress(ops[i].inv)

\* The decimal reading of an off-chain field: the integer a signed string of
\* digits denotes, zero for a missing field and for anything else.
DecimalOrZero(f) ==
    IF f = Missing THEN 0
    ELSE LET neg == Len(f) > 1 /\ f[1] = "-"
             body == IF neg THEN Tail(f) ELSE f
             ok == Len(body) > 0 /\ \A k \in 1..Len(body) : body[k] = "1"
             pow(k) == 10 ^ (Len(body) - k)
             RECURSIVE sum(_)
             sum(k) == IF k > Len(body) THEN 0 ELSE pow(k) + sum(k + 1)
         IN  IF ~ok THEN 0 ELSE IF neg THEN -sum(1) ELSE sum(1)

\* C10: with an off-chain snapshot each of the four effective values is the
\* parse of the snapshot's field, zero when the field is missing or does not
\* parse; without one each is the on-chain value; the sources are never mixed.
C10_AllOrNothing ==
    /\ offchainStatus # NoSnapshot =>
          /\ effectiveCostBasis = DecimalOrZero(offchainStatus.costBasis)
          /\ effectiveSoldValue = DecimalOrZero(offchainStatus.soldValue)
          /\ effectiveHoldingValue = DecimalOrZero(offchainStatus.currentHoldingValue)
          /\ effectiveLossAmount = DecimalOrZero(offchainStatus.lossAmount)
    /\ offchainStatus = NoSnapshot =>
          /\ effectiveCostBasis = lossSnapshot.costBasis
          /\ effectiveSoldValue = lossSnapshot.soldValue
          /\ effectiveHoldingValue = holdingValue
          /\ effectiveLossAmount = (IF cachedLoss.valid THEN cachedLoss.loss ELSE 0)

C10_Witness ==
    /\ offchainStatus # NoSnapshot
    /\ offchainStatus.costBasis = <<"1", "1">>
    /\ offchainStatus.soldValue = Missing
    /\ offchainStatus.currentHoldingValue = <<"1", "-">>
    /\ offchainStatus.lossAmount = <<"-", "1">>
    /\ effective = [costBasis |-> 11, soldValue |-> 0, holdingValue |-> 0,
                    lossAmount |-> -1]


\* C11: with no off-chain snapshot the effective loss amount is zero when the
\* cached loss is flagged invalid, whatever its number, and is the cached loss
\* when it is flagged valid.
C11_InvalidCacheIsZero ==
    offchainStatus = NoSnapshot =>
        /\ ~cachedLoss.valid => effectiveLossAmount = 0
        /\ cachedLoss.valid => effectiveLossAmount = cachedLoss.loss

C11_Witness ==
    /\ offchainStatus = NoSnapshot
    /\ ~cachedLoss.valid
    /\ cachedLoss.loss > 0
    /\ effective.costBasis = lossSnapshot.costBasis
    /\ effective.lossAmount = 0

\* C12: the off-chain service gives no data: after the fetch the snapshot is
\* null and all four effective values are the on-chain figures; a snapshot
\* once dropped never comes back.
C12_NoOffchainData ==
    [][/\ FetchOffchain =>
            /\ offchainStatus' = NoSnapshot
            /\ effectiveCostBasis' = lossSnapshot'.costBasis
            /\ effectiveSoldValue' = lossSnapshot'.soldValue
            /\ effectiveHoldingValue' = holdingValue'
            /\ effectiveLossAmount' =
                  (IF cachedLoss'.valid THEN cachedLoss'.loss ELSE 0)
       /\ offchainStatus = NoSnapshot => offchainStatus' = NoSnapshot]_vars

C12_Witness ==
    /\ offchainStatus = NoSnapshot
    /\ effective.costBasis = 11
    /\ effectiveCostBasis = lossSnapshot.costBasis


\* C13: for positive reserves and 0 < minValueOut < reserveOut, the quote of
\* the inverse minimum input is at least minValueOut.
C13_RoundTripBound ==
    (/\ amm.inverted
     /\ tokenReserve > 0
     /\ bnbReserve > 0
     /\ 0 < minBurnValue
     /\ minBurnValue < bnbReserve)
        => amm.roundTrip >= minBurnValue

\* C14: the inverse minimum input is zero whenever minValueOut >= reserveOut,
\* whenever minValueOut <= 0 and whenever a reserve is not positive.
C14_DegenerateInverseIsZero ==
    (/\ amm.inverted
     /\ \/ minBurnValue >= bnbReserve
        \/ minBurnValue <= 0
        \/ tokenReserve <= 0
        \/ bnbReserve <= 0)
        => amm.minTokens = 0

\* C15: the quote is floor(amountIn*997*reserveOut / (reserveIn*1000 +
\* amountIn*997)) for positive amount and reserves and zero otherwise; the
\* denominator of the division made is positive.
C15_ForwardQuote ==
    /\ amm.quoted =>
          amm.burnValue =
              (IF amm.amountIn > 0 /\ tokenReserve > 0 /\ bnbReserve > 0
               THEN (amm.amountIn * 997 * bnbReserve)
                        \div (tokenReserve * 1000 + amm.amountIn * 997)
               ELSE 0)
    /\ \A a \in AmountValues :
          (a > 0 /\ tokenReserve > 0 /\ bnbReserve > 0)
              => /\ tokenReserve * 1000 + a * 997 > 0
                 /\ calculateBurnValue(a) =
                        (a * 997 * bnbReserve) \div (tokenReserve * 1000 + a * 997)

C15_Witness ==
    /\ amm.quoted
    /\ amm.amountIn = MaxAmount
    /\ tokenReserve = 2
    /\ bnbReserve = MaxReserve
    /\ amm.burnValue = (MaxAmount * 997 * MaxReserve) \div (2000 + MaxAmount * 997)
    /\ amm.burnValue > 0

\* C16: for fixed reserves the quote does not decrease when the amount grows,
\* and the quote of a zero amount is zero.
C16_QuoteMonotone ==
    /\ \A a, b \in AmountValues :
          a <= b => calculateBurnValue(a) <= calculateBurnValue(b)
    /\ calculateBurnValue(0) = 0
    /\ (amm.quoted /\ amm.amountIn = 0) => amm.burnValue = 0

C16_Witness ==
    /\ amm.quoted
    /\ amm.amountIn > 1
    /\ amm.burnValue > calculateBurnValue(1)
    /\ calculateBurnValue(1) > 0


\* A refresh step, what it met, and which of its batches were issued.
RefreshStep == load'.n = load.n + 1
Failed(c) == c \in load'.env.fails
Reached == ~(load.deploy.burnToken /\ load'.env.burnToken = "throws")
BurnTokenUp == load.deploy.burnToken /\ load'.env.burnToken = "code"
NftSubscriptionUp ==
    Reached /\ load.deploy.nftSubscription /\ load'.env.nftSubscription = "code"
LossDividendUp == Reached /\ load.deploy.lossDividend
TokenUp == BurnTokenUp /\ ~Failed("token")
PairReached == LossDividendUp /\ TokenUp /\ ~Failed("pool")
PairUp == PairReached /\ chain.token0 # ZeroAddress
ZeroSnapshot == [costBasis |-> 0, soldValue |-> 0, dividendReceived |-> 0]
ZeroCachedLoss == [loss |-> 0, valid |-> FALSE]

\* C17: in every batch a refresh issues, a failing call yields its field's
\* default and every call of the batch that succeeded is published.
C17_BatchCallsIndependent ==
    [][RefreshStep =>
        /\ BurnTokenUp =>
              /\ tokenAddress' = (IF Failed("token") THEN ZeroAddress ELSE TokenAddr)
              /\ rootInviter' =
                    (IF Failed("rootInviter") THEN Null ELSE ChainRefs.rootInviter)
              /\ inviterOnchain' =
                    (IF Failed("inviterOf") THEN ZeroAddress ELSE ChainRefs.inviterOf)
              /\ minBurnValue' =
                    (IF Failed("minBurnValue") THEN 0 ELSE ChainMinBurnValue)
        /\ TokenUp =>
              /\ tokenBalance' = (IF Failed("balanceOf") THEN 0 ELSE ChainTokenBalance)
              /\ allowance' = (IF Failed("allowance") THEN 0 ELSE chainAllowance)
        /\ Reached =>
              /\ burnUnpaidBNB' =
                    (IF Failed("getUnpaidDividendBNB") THEN 0 ELSE ChainUnpaid.bnb)
              /\ burnUnpaidToken' =
                    (IF Failed("getUnpaidDividendToken") THEN 0 ELSE ChainUnpaid.token)
        /\ NftSubscriptionUp =>
              /\ nftSubPrice' =
                    (IF Failed("pricePerShare") THEN 0 ELSE ChainPricePerShare)
              /\ nftSubRootInviter' =
                    (IF Failed("nftRootInviter") THEN "" ELSE ChainRefs.nftRootInviter)
        /\ LossDividendUp =>
              /\ lossSnapshot' =
                    (IF Failed("userSnapshots") THEN ZeroSnapshot ELSE ChainSnapshot)
              /\ cachedLoss' =
                    (IF Failed("getCachedLoss") THEN ZeroCachedLoss ELSE chain.cached)
        /\ PairUp =>
              /\ tokenReserve' = (IF Failed("getReserves") THEN 0 ELSE ChainReserves.token)
              /\ bnbReserve' = (IF Failed("getReserves") THEN 0 ELSE ChainReserves.bnb)
      ]_vars

\* C18: when a contract group fails as a whole in a refresh (not deployed, or
\* its bytecode probe rejects), the refresh still publishes every other group
\* that answers.
C18_GroupFailureIsolated ==
    [][(/\ RefreshStep
        /\ \/ load.deploy.burnToken /\ load'.env.burnToken \in {"empty", "throws"}
           \/ load.deploy.nftSubscription
                /\ load'.env.nftSubscription \in {"empty", "throws"}
           \/ ~load.deploy.burnToken
           \/ ~load.deploy.nftSubscription
           \/ ~load.deploy.lossDividend
        /\ load'.env.fails = {})
          => /\ BurnTokenUp => minBurnValue' = ChainMinBurnValue
             /\ burnUnpaidBNB' = ChainUnpaid.bnb
             /\ (load.deploy.nftSubscription /\ load'.env.nftSubscription = "code")
                   => nftSubPrice' = ChainPricePerShare
             /\ load.deploy.lossDividend => lossSnapshot' = ChainSnapshot
             /\ claimableNfts' = ChainUnpaid.nfts
      ]_vars

\* C19: after a refresh that finds a group not deployed (zero address or empty
\* bytecode), every field that depends on the group holds its default.
C19_UndeployedGroupReset ==
    [][RefreshStep =>
        /\ (~load.deploy.burnToken
              \/ (load.deploy.burnToken /\ load'.env.burnToken = "empty"))
              => /\ tokenAddress' = Null
                 /\ rootInviter' = Null
                 /\ inviterOnchain' = Null
                 /\ minBurnValue' = 0
        /\ (Reached /\ (~load.deploy.nftSubscription
                          \/ load'.env.nftSubscription = "empty"))
              => /\ nftSubPrice' = 0
                 /\ nftSubRootInviter' = ""
                 /\ nftInviterOnchain' = Null
        /\ (Reached /\ ~load.deploy.lossDividend)
              => /\ lossSnapshot' = ZeroSnapshot
                 /\ cachedLoss' = ZeroCachedLoss
                 /\ lossPendingDividend' = 0
      ]_vars

\* C20: a refresh all of whose remote reads fail leaves the effective
\* position (cost basis, sold value, holding value, loss amount) as it was.
C20_TotalFailureKeepsPosition ==
    [][(/\ RefreshStep
        /\ load'.env.fails = Calls
        /\ load.deploy.burnToken => load'.env.burnToken = "throws"
        /\ load.deploy.nftSubscription => load'.env.nftSubscription = "throws")
          => /\ effectiveCostBasis' = effectiveCostBasis
             /\ effectiveSoldValue' = effectiveSoldValue
             /\ effectiveHoldingValue' = effectiveHoldingValue
             /\ effectiveLossAmount' = effectiveLossAmount
      ]_vars


\* ------------------------------------------------------ burn completion
\* C23: the step of a burn that confirms it clears the input and does not
\* touch the pending flag; the burn then ends only by a step that runs
\* loadContractData and clears the flag; a step that ends a submitted burn by
\* a failure leaves the input and every published value unchanged.
C23_ConfirmedBurnRefreshes ==
    [][\A i \in AllSlots :
        /\ (ops[i].pc = "burnWait" /\ ops'[i].pc = "burnLoad")
            => (burnAmount' = "" /\ isPending' = isPending /\ NoRefresh)
        /\ ops[i].pc = "burnLoad" => ops'[i].pc \in {"burnLoad", "idle"}
        /\ (ops[i].pc = "burnLoad" /\ ops'[i].pc = "idle")
            => /\ ~isPending'
               /\ \E outcome \in LoadOutcomes : loadContractData(outcome)
        /\ (BurnSubmitted(i) /\ ops'[i].pc = "idle")
            => (burnAmount' = burnAmount /\ NoRefresh /\ ~isPending')]_vars

\* A confirmed burn has cleared the input and awaits its refresh.
C23_Witness ==
    \E i \in AllSlots :
        /\ ops[i].kind = "burnflow" /\ ops[i].pc = "burnLoad"
        /\ burnAmount = "" /\ isPending

\* The markers in the order the catch tests them, and the message of each.
MarkerOrder ==
    <<"BELOW_MIN_BURN_VALUE", "INSUFFICIENT_INPUT_AMOUNT", "exceeds allowance">>
MarkerKinds == <<"burnBelowMin", "burnLiquidity", "burnAllowance">>
BurnFailureKinds == {MarkerKinds[n] : n \in 1..Len(MarkerKinds)} \cup {"burnOther"}

FirstMarkerKind(msg) ==
    IF \E n \in 1..Len(MarkerOrder) : MarkerOrder[n] \in msg
    THEN MarkerKinds[CHOOSE n \in 1..Len(MarkerOrder) :
                        /\ MarkerOrder[n] \in msg
                        /\ \A m \in 1..(n - 1) : MarkerOrder[m] \notin msg]
    ELSE "burnOther"

\* C24: every error message is classified by its first marker in the order
\* BELOW_MIN_BURN_VALUE, INSUFFICIENT_INPUT_AMOUNT, exceeds allowance, else as
\* unrecognized; the four messages are distinct; a step that ends a
\* submitted burn by a failure shows one of the four and clears the pending
\* flag.
C24_FailedBurnClassified ==
    [][/\ \A msg \in ErrorMessages :
            ClassifyBurnError(msg) = Alert(FirstMarkerKind(msg))
       /\ Cardinality({ClassifyBurnError(msg) : msg \in ErrorMessages}) = 4
       /\ Cardinality(BurnFailureKinds) = 4
       /\ \A i \in AllSlots :
            (BurnSubmitted(i) /\ ops'[i].pc = "idle")
                => /\ alert'.kind \in BurnFailureKinds
                   /\ \E msg \in ErrorMessages :
                        alert' = Alert(FirstMarkerKind(msg))
                   /\ ~isPending']_vars

\* A burn has failed with the liquidity message and the flag is clear.
C24_Witness ==
    /\ alert = Alert("burnLiquidity")
    /\ ~isPending
    /\ \A i \in AllSlots : ~InFlight(i)

\* ------------------------------------------------------ claim guards
\* C25: a step that starts a claim starts from a state where the wallet is
\* connected and the pending flag is clear, and where the loss dividend is at
\* least the minimum (loss claim), the unpaid amount is positive (burn
\* dividend claims), the claimable count is not zero (NFT mint claim).
C25_ClaimsGuarded ==
    [][\A i \in AllSlots : \A k \in ClaimKinds :
        (ops[i].pc = "idle" /\ ops'[i].kind = k /\ ops'[i].pc = "claimSend")
            => /\ isConnected /\ ~isPending
               /\ k = "claimLoss" => lossPendingDividend >= MinLossDividend
               /\ k = "claimBurnBNB" => burnUnpaidBNB > 0
               /\ k = "claimBurnToken" => burnUnpaidToken > 0
               /\ k = "claimNftMint" => claimableNfts # 0]_vars

\* A loss-dividend claim has been started.
C25_Witness ==
    \E i \in AllSlots :
        /\ ops[i].kind = "claimLoss" /\ ops[i].pc = "claimSend"
        /\ lossPendingDividend >= MinLossDividend
        /\ isPending

\* ------------------------------------------------------ subscription
\* C26: a step that starts handleSubscribe off chain 56 only requests the
\* switch and does not set the pending flag; no handleSubscribe starts while
\* disconnected; after the switch request the handler only ends, it never
\* goes on to the balance read or the submission, and its last step does not
\* set the flag either.
C26_SwitchEndsAttempt ==
    [][\A i \in AllSlots :
        /\ (ops[i].pc = "idle" /\ ops'[i].kind = "subscribe" /\ chainId # 56)
            => (ops'[i].pc = "subSwitch" /\ isPending' = isPending)
        /\ (ops[i].pc = "idle" /\ ~isConnected)
            => (ops'[i].kind # "subscribe" /\ isPending' = isPending)
        /\ ops[i].pc = "subSwitch" => ops'[i].pc \in {"subSwitch", "idle"}
        /\ (ops[i].pc = "subSwitch" /\ ops'[i].pc = "idle")
            => isPending' = isPending]_vars

\* A network switch has been requested by handleSubscribe.
C26_Witness ==
    \E i \in AllSlots :
        /\ ops[i].kind = "subscribe" /\ ops[i].pc = "subSwitch"
        /\ chainId # 56 /\ ~isPending

\* C27: a subscription is submitted only after a balance read of the same
\* call that returned at least the price.
C27_SubscribeOnlyWithFunds ==
    \A i \in AllSlots :
        SubscribeSubmitted(i)
            => (ops[i].read = "ok" /\ ops[i].fresh >= ops[i].txAmt)


\* ------------------------------------------------------ pool accounting
\* What the pair's token0() and getReserves() give the refresh of this step.
Token0Read == IF Failed("token0") THEN ZeroAddress ELSE chain.token0
ReservesRead ==
    IF Failed("getReserves") THEN <<0, 0>> ELSE <<chain.reserve0, chain.reserve1>>

\* C30: a refresh that reaches the pair leaves tokenReserve, bnbReserve and
\* holdingValue as they were when token0 reads as the zero address;
\* otherwise tokenReserve is reserve0 when token0 and the token address are
\* equal up to case and reserve1 when they are not, bnbReserve is the other
\* one, and holdingValue changes only when tokenReserve > 0, to
\* balance * (bnbReserve * 10^18 / tokenReserve) / 10^18.
C30_PoolOrientation ==
    [][(RefreshStep /\ PairReached) =>
        IF Token0Read = ZeroAddress
        THEN UNCHANGED <<tokenReserve, bnbReserve, holdingValue>>
        ELSE LET same == toLowerCase(Token0Read) = toLowerCase(TokenAddr)
                 tRes == IF same THEN ReservesRead[1] ELSE ReservesRead[2]
                 bRes == IF same THEN ReservesRead[2] ELSE ReservesRead[1]
             IN  /\ tokenReserve' = tRes
                 /\ bnbReserve' = bRes
                 /\ tRes <= 0 => holdingValue' = holdingValue
                 /\ (tRes > 0 /\ ~Failed("holdingBalanceOf")) =>
                        holdingValue' =
                            BigDiv(ChainTokenBalance
                                     * BigDiv(bRes * WeiPerEther, tRes),
                                   WeiPerEther)]_vars

\* A refresh has oriented a pair whose token0 is the token address in lower
\* case: reserve0 is the token reserve.
C30_Witness ==
    /\ load.n > 0
    /\ load.deploy = FullDeployment
    /\ load.env.fails = {}
    /\ load.env.burnToken = "code"
    /\ chain.token0 = toLowerCase(TokenAddr)
    /\ chain.token0 # tokenAddress
    /\ tokenReserve = chain.reserve0
    /\ bnbReserve = chain.reserve1
    /\ holdingValue > 0


\* ------------------------------------------------------ burn-value check
\* The reserves the pair has on chain, oriented.
ReservesOnChain ==
    Orient(chain.token0, TokenAddr, <<chain.reserve0, chain.reserve1>>)

\* C22: a click on the burn button that the minimum-burn-value check lets
\* through was checked on the reserves the pair has on chain at the click,
\* which is what a read made after the click returns at the earliest.
C22_CheckOnFreshReserves ==
    [][\A i \in AllSlots :
        (ops[i].pc = "idle" /\ ops'[i].kind = "burnflow" /\ ops'[i].pc # "idle")
            => /\ tokenReserve = ReservesOnChain.token
               /\ bnbReserve = ReservesOnChain.bnb]_vars


\* ------------------------------------------------------ overlapping refreshes
Completed(r) == race.runs[r].stage = Len(Stages) + 1

\* C21: once both refreshes have completed, the allowance, the reserves and
\* the holding value are those the refresh that completed last has written
\* (every other published value is the same for both).
C21_LastCompletedWins ==
    (\A r \in RefreshIds : Completed(r)) =>
        LET last == race.runs[race.order[Len(race.order)]].got
        IN  /\ allowance = last.allowance
            /\ tokenReserve = last.tokenReserve
            /\ bnbReserve = last.bnbReserve
            /\ holdingValue =
                 HoldingValueOf(ChainTokenBalance, last.tokenReserve,
                                last.bnbReserve)


\* ------------------------------------------------------ timers
\* C28: after every step at most one polling interval is set and none is set
\* once the component is torn down, also across the re-runs of the effect
\* that a change of account or network causes; a step in which a tick starts
\* a refresh starts from a mounted component.
C28_OnePollingTimer ==
    [][/\ Cardinality(poll'.timers) <= 1
       /\ ~poll'.mounted => poll'.timers = {}
       /\ (poll.loading = "none" /\ poll'.loading = "tick") => poll.mounted]_vars

\* The effect has re-run after a change of account or network and exactly
\* one interval, the newest, is set.
C28_Witness ==
    /\ poll.mounted
    /\ poll.made > 1
    /\ poll.timers = {poll.made}
    /\ isConnected

\* C29: the auto-open timer opens the prompt at most once; it opens it only
\* from a disconnected state in which the prompt was never opened; and once
\* the wallet is connected no auto-open timer is armed.
C29_PromptAtMostOnce ==
    [][/\ prompt'.opens <= 1
       /\ prompt'.opens > prompt.opens =>
            (~isConnected /\ ~prompt.hasAutoOpened /\ prompt.opens = 0)
       /\ Cardinality(prompt'.timers) <= 1
       /\ (isConnected' \/ prompt'.hasAutoOpened) => prompt'.timers = {}]_vars

\* The wallet connected before the timer fired: the timer is cancelled and
\* the prompt was not opened.
C29_Witness ==
    /\ isConnected
    /\ prompt.timers = {}
    /\ ~prompt.hasAutoOpened
    /\ prompt.opens = 0


\* ------------------------------------------------------ one click, one flow
\* C31: a burn flow that has reached handleBurn through the continuation of
\* a confirmed approval does not turn back into handleApprove: one click
\* submits at most one approval, whatever the allowance read returns.
C31_NoSecondApproval ==
    [][\A i \in AllSlots :
        (ops[i].pc = "burnAllow" /\ ops[i].via = "approve")
            => ops'[i].pc # "approveSend"]_vars


\* ------------------------------------------------------ chain of the signer
\* C33: while an approve, burn or claim transaction is being submitted, the
\* wallet is on the chain the registry and the read endpoint belong to.
C33_SubmitOnReadChain ==
    \A i \in AllSlots :
        ops[i].pc \in {"approveSend", "burnSend", "claimSend"}
            => chainId = ReadChain(chainId)


\* ------------------------------------------------------ account change
\* C32: once a refresh started for the connected account has completed, the
\* published token balance is the balance of that account.
C32_ValuesOfCurrentAccount ==
    (\E r \in RefreshIds : Completed(r) /\ race.runs[r].got.acct = account)
        => tokenBalance = BalanceOf(account)


\* ------------------------------------------------------ last-action marker
\* C34: whenever the pending flag is false the last-action marker is null.
C34_MarkerClearedWithFlag ==
    ~isPending => lastAction = Null


\* ------------------------------------------------------ amount of the burn
\* C35: the click that starts a burn flow fixes its amount to the parsed
\* input of that moment, which is positive and has passed the burn-value
\* check; the flow keeps that amount through the approval and the allowance
\* read; and the burn it submits is for exactly that amount, whatever the
\* input holds by then.
C35_BurnAmountIsClickAmount ==
    [][\A i \in AllSlots :
        /\ (ops[i].pc = "idle" /\ ops'[i].kind = "burnflow" /\ ops'[i].pc # "idle")
            => /\ ops'[i].amt = parsedBurnAmount
               /\ parsedBurnAmount > 0
               /\ burnValueCheck.isValid
        /\ (ops[i].kind = "burnflow" /\ ops'[i].kind = "burnflow")
            => ops'[i].amt = ops[i].amt
        /\ (ops[i].pc # "burnSend" /\ ops'[i].pc = "burnSend")
            => (ops'[i].txAmt = ops'[i].amt /\ ops'[i].txAmt > 0)]_vars

\* A burn reached through the approve continuation is submitted for the
\* click's amount although the input was edited meanwhile.
C35_Witness ==
    \E i \in AllSlots :
        /\ BurnSubmitted(i)
        /\ ops[i].via = "approve"
        /\ ops[i].txAmt > 0
        /\ parsedBurnAmount # ops[i].txAmt

C37_QuoteBelowReserve ==
    /\ (tokenReserve > 0 /\ bnbReserve > 0) =>
          \A a \in AmountValues :
              a > 0 => (calculateBurnValue(a) >= 0 /\ calculateBurnValue(a) < bnbReserve)
    /\ (amm.quoted /\ amm.amountIn > 0 /\ tokenReserve > 0 /\ bnbReserve > 0) =>
          (amm.burnValue >= 0 /\ amm.burnValue < bnbReserve)

C37_Witness ==
    /\ amm.quoted
    /\ amm.amountIn > tokenReserve
    /\ tokenReserve > 0
    /\ bnbReserve > 1
    /\ amm.burnValue = bnbReserve - 1

=============================================================================
